---- MODULE Spec2Model ----
(***************************************************************************)
(* A model of the pidgeon PID controller (crates/pidgeon/src/lib.rs):      *)
(* ControllerConfig and its builder, PidController (compute, reset, the    *)
(* setters, get_statistics, update_statistics) and the Mutex facade        *)
(* ThreadSafePidController.                                                *)
(*                                                                         *)
(* f64 values are fixed-point integers in units of 1/One, with the three   *)
(* special values INFINITY, NEG_INFINITY and NAN and the IEEE rules for    *)
(* them; products and quotients round to the nearest unit.  Instants and   *)
(* Durations are whole ticks of a monotonic clock.                         *)
(***************************************************************************)
EXTENDS Integers, Sequences, FiniteSets, TLC

(* ------------------------------ bounds -------------------------------- *)
\* compute calls between two resets (error_count never exceeds it)
MaxCalls == 3
\* the last tick of the monotonic clock
MaxTime == 2
\* the calls with the saturating error tests::test_anti_windup may make
\* before it turns to the recovery error
MaxSaturationCalls == 52
\* the threads sharing one ThreadSafePidController
NumThreads == 2
\* update_error calls between two resets of the shared controller
MaxUpdates == 2
MaxDebugCalls == 101

(* ------------------------------ state --------------------------------- *)
VARIABLES
    \* the PidController
    pid,
    \* the monotonic clock read by Instant::now()
    now,
    \* the last call the owner of pid made on it: when it was made (at), its
    \* arguments, the controller before it (pre) and what it returned
    last,
    \* tests::test_anti_windup: its two controllers
    controller_windup,
    controller_anti_windup,
    \* where a test stands: in test_anti_windup the calls made on both
    \* controllers and what the last of them returned, in test_pid_control
    \* the iteration of the loop and the process value
    scenario,
    \* a second controller, configured otherwise than pid and fed the errors
    \* pid is fed
    twin,
    \* a ControllerConfig in the hands of the builder
    builder,
    \* ThreadSafePidController: the Mutex around pid, and the threads calling it
    mutex,
    threads,
    \* the error_count the latest read through the facade was served from
    observed,
    \* a single-threaded controller that is handed each facade call, whole,
    \* at the moment the call acquires the lock
    sequential

vars ==
    << pid, now, last, controller_windup, controller_anti_windup, scenario, twin,
       builder,
       mutex, threads, observed, sequential >>
single_vars == << pid, now, last >>
pair_vars ==
    << controller_windup, controller_anti_windup, scenario, twin, builder >>
facade_vars == << mutex, threads, observed, sequential >>

(* ------------------------------- f64 ---------------------------------- *)
\* the fixed-point representation of 1.0
One == 100
Half == One \div 2
INFINITY == 1000000000
NEG_INFINITY == -INFINITY
NAN == 2000000000

IsNaN(x) == x = NAN
IsInf(x) == x = INFINITY \/ x = NEG_INFINITY
IsFinite(x) == ~IsNaN(x) /\ ~IsInf(x)
Sign(x) == IF x > 0 THEN 1 ELSE IF x < 0 THEN -1 ELSE 0
Mag(x) == IF x < 0 THEN -x ELSE x
\* a finite result beyond the largest finite value overflows to an infinity
Overflow(x) == IF x >= INFINITY THEN INFINITY
               ELSE IF x <= NEG_INFINITY THEN NEG_INFINITY ELSE x
\* n / d rounded to the nearest integer, ties away from zero (d # 0)
RoundDiv(n, d) == Sign(n) * Sign(d) * ((2 * Mag(n) + Mag(d)) \div (2 * Mag(d)))

FNeg(x) == IF IsNaN(x) THEN NAN ELSE -x
FAbs(x) == IF IsNaN(x) THEN NAN ELSE Mag(x)
FAdd(a, b) ==
    IF IsNaN(a) \/ IsNaN(b) THEN NAN
    ELSE IF IsInf(a) THEN (IF IsInf(b) /\ a # b THEN NAN ELSE a)
    ELSE IF IsInf(b) THEN b
    ELSE Overflow(a + b)
FSub(a, b) == FAdd(a, FNeg(b))
FMul(a, b) ==
    IF IsNaN(a) \/ IsNaN(b) THEN NAN
    ELSE IF IsInf(a) \/ IsInf(b)
         THEN (IF a = 0 \/ b = 0 THEN NAN
               ELSE IF Sign(a) * Sign(b) > 0 THEN INFINITY ELSE NEG_INFINITY)
    ELSE Overflow(RoundDiv(a * b, One))
\* the zero divisor is +0.0
FDiv(a, b) ==
    IF IsNaN(a) \/ IsNaN(b) THEN NAN
    ELSE IF IsInf(a)
         THEN (IF IsInf(b) THEN NAN
               ELSE IF Sign(a) * (IF b < 0 THEN -1 ELSE 1) > 0
                    THEN INFINITY ELSE NEG_INFINITY)
    ELSE IF IsInf(b) THEN 0
    ELSE IF b = 0
         THEN (IF a = 0 THEN NAN ELSE IF a > 0 THEN INFINITY ELSE NEG_INFINITY)
    ELSE Overflow(RoundDiv(a * One, b))
\* every comparison with a NaN operand is false
FLt(a, b) == ~IsNaN(a) /\ ~IsNaN(b) /\ a < b
FGt(a, b) == ~IsNaN(a) /\ ~IsNaN(b) /\ a > b
FLe(a, b) == ~IsNaN(a) /\ ~IsNaN(b) /\ a <= b
FGe(a, b) == ~IsNaN(a) /\ ~IsNaN(b) /\ a >= b
\* u64 as f64
AsF64(n) == n * One
\* Duration::as_secs_f64, one tick being one second
as_secs_f64(d) == d * One

\* Option<Duration>
None == << >>
Some(d) == << d >>
is_none(o) == o = None
unwrap(o) == o[1]

(* ------------------------- ControllerConfig --------------------------- *)
ControllerConfig_default ==
    [kp |-> One, ki |-> 0, kd |-> 0,
     min_output |-> NEG_INFINITY, max_output |-> INFINITY,
     anti_windup |-> FALSE, setpoint |-> 0]
ControllerConfig_new == ControllerConfig_default
\* a with_kp that starts again from the defaults
with_kp_from_default(self, kp) == [ControllerConfig_default EXCEPT !.kp = kp]
with_kp(self, kp) == [self EXCEPT !.kp = kp]
with_ki(self, ki) == [self EXCEPT !.ki = ki]
with_kd(self, kd) == [self EXCEPT !.kd = kd]
with_output_limits(self, min, max) ==
    [self EXCEPT !.min_output = min, !.max_output = max]
with_anti_windup(self, enable) == [self EXCEPT !.anti_windup = enable]
with_setpoint(self, setpoint) == [self EXCEPT !.setpoint = setpoint]

(* --------------------------- PidController ---------------------------- *)
\* the default of settled_threshold, 0.05
DefaultSettledThreshold == (5 * One) \div 100

PidController_new(config, instant) ==
    [config |-> config,
     integral |-> 0,
     prev_error |-> 0,
     first_run |-> TRUE,
     start_time |-> instant,
     error_sum |-> 0,
     error_count |-> 0,
     max_error |-> 0,
     reached_setpoint |-> FALSE,
     rise_time |-> None,
     settle_time |-> None,
     settled_threshold |-> DefaultSettledThreshold,
     debugger |-> None]

\* feature "debugging": a ControllerDebugger is attached
with_debugging(self, debug_config) == [self EXCEPT !.debugger = Some(debug_config)]

\* statistics whose error_count is one bit wide and wraps
update_statistics_wrapping(self, error, t1, t2) ==
    [self EXCEPT !.error_sum = FAdd(@, FAbs(error)),
                 !.error_count = (@ + 1) % 2]

\* statistics that add up the error with its sign
update_statistics_signed(self, error, t1, t2) ==
    [self EXCEPT !.error_sum = FAdd(@, error),
                 !.error_count = @ + 1]

\* statistics of the proportional term in place of the error
update_statistics_scaled(self, error, t1, t2) ==
    [self EXCEPT !.error_sum = FAdd(@, FAbs(FMul(self.config.kp, error))),
                 !.error_count = @ + 1]

\* statistics in which an excursion takes back reached_setpoint as well
update_statistics_rearming(self, error, t1, t2) ==
    LET s1 == [self EXCEPT !.error_sum = FAdd(@, FAbs(error)),
                           !.error_count = @ + 1,
                           !.max_error = IF FGt(FAbs(error), @)
                                         THEN FAbs(error) ELSE @]
    IN  IF FGt(FAbs(error), s1.settled_threshold)
        THEN [s1 EXCEPT !.settle_time = None, !.reached_setpoint = FALSE]
        ELSE IF FLe(FAbs(error), s1.settled_threshold)
        THEN [s1 EXCEPT !.reached_setpoint = TRUE,
                        !.rise_time = IF s1.reached_setpoint THEN @
                                      ELSE Some(t1 - s1.start_time),
                        !.settle_time = IF is_none(@)
                                        THEN Some(t2 - s1.start_time) ELSE @]
        ELSE s1

\* statistics that keep settle_time through an excursion
update_statistics_sticky(self, error, t1, t2) ==
    LET s1 == [self EXCEPT !.error_sum = FAdd(@, FAbs(error)),
                           !.error_count = @ + 1,
                           !.max_error = IF FGt(FAbs(error), @)
                                         THEN FAbs(error) ELSE @]
    IN  IF FLe(FAbs(error), s1.settled_threshold)
        THEN [s1 EXCEPT !.reached_setpoint = TRUE,
                        !.rise_time = IF s1.reached_setpoint THEN @
                                      ELSE Some(t1 - s1.start_time),
                        !.settle_time = IF is_none(@)
                                        THEN Some(t2 - s1.start_time) ELSE @]
        ELSE s1

\* statistics that record settle_time anew on every call within the band
update_statistics_rerecording(self, error, t1, t2) ==
    LET s1 == [self EXCEPT !.error_sum = FAdd(@, FAbs(error)),
                           !.error_count = @ + 1,
                           !.max_error = IF FGt(FAbs(error), @)
                                         THEN FAbs(error) ELSE @]
    IN  IF FGt(FAbs(error), s1.settled_threshold)
        THEN [s1 EXCEPT !.settle_time = None]
        ELSE IF FLe(FAbs(error), s1.settled_threshold)
        THEN [s1 EXCEPT !.reached_setpoint = TRUE,
                        !.rise_time = IF s1.reached_setpoint THEN @
                                      ELSE Some(t1 - s1.start_time),
                        !.settle_time = Some(t2 - s1.start_time)]
        ELSE s1

\* t1 and t2 are the two readings of Instant::now(), t1 <= t2
update_statistics(self, error, t1, t2) ==
    LET s1 == [self EXCEPT !.error_sum = FAdd(@, FAbs(error)),
                           !.error_count = @ + 1]
        s2 == IF FGt(FAbs(error), s1.max_error)
              THEN [s1 EXCEPT !.max_error = FAbs(error)] ELSE s1
        s3 == IF ~s2.reached_setpoint /\ FLe(FAbs(error), s2.settled_threshold)
              THEN [s2 EXCEPT !.reached_setpoint = TRUE,
                              !.rise_time = Some(t1 - s2.start_time)]
              ELSE s2
    IN  IF s3.reached_setpoint /\ FLe(FAbs(error), s3.settled_threshold)
           /\ is_none(s3.settle_time)
        THEN [s3 EXCEPT !.settle_time = Some(t2 - s3.start_time)]
        ELSE IF FGt(FAbs(error), s3.settled_threshold)
        THEN [s3 EXCEPT !.settle_time = None]
        ELSE s3

\* a clamp that forgets the lower bound
apply_output_limits_max_only(raw_output, config) ==
    IF FGt(raw_output, config.max_output) THEN config.max_output
    ELSE raw_output

\* a clamp that puts the bounds in order first
apply_output_limits_reordering(raw_output, config) ==
    LET low == IF FGt(config.min_output, config.max_output)
               THEN config.max_output ELSE config.min_output
        high == IF FGt(config.min_output, config.max_output)
                THEN config.min_output ELSE config.max_output
    IN  IF FGt(raw_output, high) THEN high
        ELSE IF FLt(raw_output, low) THEN low
        ELSE raw_output

\* a clamp whose comparisons are the wrong way round
apply_output_limits_backwards(raw_output, config) ==
    IF FLt(raw_output, config.max_output) THEN config.max_output
    ELSE IF FGt(raw_output, config.min_output) THEN config.min_output
    ELSE raw_output

\* "Apply output limits"
apply_output_limits(raw_output, config) ==
    IF FGt(raw_output, config.max_output) THEN config.max_output
    ELSE IF FLt(raw_output, config.min_output) THEN config.min_output
    ELSE raw_output

\* anti-windup that takes only an output beyond a bound as saturated: the
\* output at the bound itself integrates
apply_anti_windup_strict(config, integral, pre_integral, output, error) ==
    IF config.anti_windup
    THEN IF (FGt(output, config.max_output) /\ FGt(error, 0))
            \/ (FLt(output, config.min_output) /\ FLt(error, 0))
         THEN integral
         ELSE pre_integral
    ELSE pre_integral

\* a compute that integrates whatever anti_windup says
apply_anti_windup_ignored(config, integral, pre_integral, output, error) ==
    pre_integral

\* anti-windup that freezes the integral at either bound, whatever the sign
\* of the error
apply_anti_windup_any_sign(config, integral, pre_integral, output, error) ==
    IF config.anti_windup
    THEN IF FGe(output, config.max_output) \/ FLe(output, config.min_output)
         THEN integral
         ELSE pre_integral
    ELSE pre_integral

\* anti-windup that is applied whether config.anti_windup is set or not
apply_anti_windup_unconditional(config, integral, pre_integral, output, error) ==
    IF (FGe(output, config.max_output) /\ FGt(error, 0))
       \/ (FLe(output, config.min_output) /\ FLt(error, 0))
    THEN integral
    ELSE pre_integral

\* "Apply anti-windup": the integral a compute call stores
apply_anti_windup(config, integral, pre_integral, output, error) ==
    IF config.anti_windup
    THEN IF (FGe(output, config.max_output) /\ FGt(error, 0))
            \/ (FLe(output, config.min_output) /\ FLt(error, 0))
         THEN integral
         ELSE pre_integral
    ELSE pre_integral

\* a first run that clears the flag and leaves prev_error as it is
init_first_run_unseeded(self, error) ==
    IF self.first_run THEN [self EXCEPT !.first_run = FALSE] ELSE self

\* "On first run, initialize derivative term"
init_first_run(self, error) ==
    IF self.first_run
    THEN [self EXCEPT !.prev_error = error, !.first_run = FALSE]
    ELSE self

\* compute once update_statistics has run: the controller after the call,
\* the value returned and the terms of it
compute_output(s1, error, dt) ==
    LET s2 == init_first_run(s1, error)
        p_term == FMul(s2.config.kp, error)
        pre_integral == FAdd(s2.integral, FMul(error, dt))
        d_term == FDiv(FMul(s2.config.kd, FSub(error, s2.prev_error)), dt)
        raw_output == FAdd(FAdd(p_term, FMul(s2.config.ki, pre_integral)), d_term)
        output == apply_output_limits(raw_output, s2.config)
    IN  [self |-> [s2 EXCEPT
                     !.integral = apply_anti_windup(s2.config, s2.integral,
                                                    pre_integral, output, error),
                     !.prev_error = error],
         output |-> output,
         raw_output |-> raw_output,
         p_term |-> p_term,
         d_term |-> d_term,
         \* what send_debug_data is handed, when there is a debugger
         debug_data |-> IF is_none(s2.debugger) THEN None
                        ELSE Some([error |-> error, output |-> output,
                                   p_term |-> p_term, d_term |-> d_term])]

\* a compute that turns away a dt that is not positive, changing nothing
compute_rejecting_dt(self, error, dt, t1, t2) ==
    IF FLe(dt, 0)
    THEN [compute_output(self, error, One) EXCEPT !.self = self]
    ELSE compute_output(update_statistics(self, error, t1, t2), error, dt)

compute(self, error, dt, t1, t2) ==
    compute_output(update_statistics(self, error, t1, t2), error, dt)

\* a reset that builds the controller anew from the default configuration
reset_to_default(self, instant) ==
    [PidController_new(ControllerConfig_default, instant) EXCEPT
        !.settled_threshold = self.settled_threshold]

\* a reset that keeps the old start_time
reset_keeps_start_time(self, instant) ==
    [self EXCEPT !.integral = 0,
                 !.prev_error = 0,
                 !.first_run = TRUE,
                 !.error_sum = 0,
                 !.error_count = 0,
                 !.max_error = 0,
                 !.reached_setpoint = FALSE,
                 !.rise_time = None,
                 !.settle_time = None]

\* a reset that forgets to clear rise_time
reset_leaving_rise_time(self, instant) ==
    [self EXCEPT !.integral = 0,
                 !.prev_error = 0,
                 !.first_run = TRUE,
                 !.start_time = instant,
                 !.error_sum = 0,
                 !.error_count = 0,
                 !.max_error = 0,
                 !.reached_setpoint = FALSE,
                 !.settle_time = None]

\* a reset that also puts the default settled_threshold back
reset_restoring_threshold(self, instant) ==
    [self EXCEPT !.integral = 0,
                 !.prev_error = 0,
                 !.first_run = TRUE,
                 !.start_time = instant,
                 !.error_sum = 0,
                 !.error_count = 0,
                 !.max_error = 0,
                 !.reached_setpoint = FALSE,
                 !.rise_time = None,
                 !.settle_time = None,
                 !.settled_threshold = DefaultSettledThreshold]

reset(self, instant) ==
    [self EXCEPT !.integral = 0,
                 !.prev_error = 0,
                 !.first_run = TRUE,
                 !.start_time = instant,
                 !.error_sum = 0,
                 !.error_count = 0,
                 !.max_error = 0,
                 !.reached_setpoint = FALSE,
                 !.rise_time = None,
                 !.settle_time = None]

set_kp(self, kp) == [self EXCEPT !.config.kp = kp]
set_ki(self, ki) == [self EXCEPT !.config.ki = ki]
\* a set_kd that has the derivative start again
set_kd_restarting(self, kd) == [self EXCEPT !.config.kd = kd, !.first_run = TRUE]
set_kd(self, kd) == [self EXCEPT !.config.kd = kd]
set_output_limits(self, min, max) ==
    [self EXCEPT !.config.min_output = min, !.config.max_output = max]
set_anti_windup(self, enable) == [self EXCEPT !.config.anti_windup = enable]
\* a set_setpoint that empties the integral for the new target
set_setpoint_rebasing(self, target) ==
    [self EXCEPT !.config.setpoint = target, !.integral = 0]
set_setpoint(self, setpoint) == [self EXCEPT !.config.setpoint = setpoint]
setpoint(self) == self.config.setpoint
set_settled_threshold(self, threshold) ==
    [self EXCEPT !.settled_threshold = threshold]

\* an average_error that divides whatever error_count is
get_statistics_unguarded_average(self, instant) ==
    [average_error |-> FDiv(self.error_sum, AsF64(self.error_count)),
     max_overshoot |-> self.max_error,
     settling_time |-> IF is_none(self.settle_time)
                       THEN as_secs_f64(instant - self.start_time)
                       ELSE as_secs_f64(unwrap(self.settle_time)),
     rise_time |-> IF is_none(self.rise_time)
                   THEN NAN
                   ELSE as_secs_f64(unwrap(self.rise_time))]

\* a settling_time that is always the time since start_time
get_statistics_elapsed(self, instant) ==
    [average_error |-> IF self.error_count > 0
                       THEN FDiv(self.error_sum, AsF64(self.error_count))
                       ELSE 0,
     max_overshoot |-> self.max_error,
     settling_time |-> as_secs_f64(instant - self.start_time),
     rise_time |-> IF is_none(self.rise_time)
                   THEN NAN
                   ELSE as_secs_f64(unwrap(self.rise_time))]

get_statistics(self, instant) ==
    [average_error |-> IF self.error_count > 0
                       THEN FDiv(self.error_sum, AsF64(self.error_count))
                       ELSE 0,
     max_overshoot |-> self.max_error,
     settling_time |-> IF is_none(self.settle_time)
                       THEN as_secs_f64(instant - self.start_time)
                       ELSE as_secs_f64(unwrap(self.settle_time)),
     rise_time |-> IF is_none(self.rise_time)
                   THEN NAN
                   ELSE as_secs_f64(unwrap(self.rise_time))]

(* ---------------------- the inputs of the calls ----------------------- *)
Errors == {-One, 0, One}
Dts == {0, One}
KpValues == {Half, One}
KiValues == {0, 2 * One}
KdValues == {0, One}
\* unbounded, a range, a single point, and bounds the wrong way round
Limits ==
    {<< NEG_INFINITY, INFINITY >>, << -One, One >>, << One, One >>, << One, -One >>}
Setpoints == {0, One}
Thresholds == {DefaultSettledThreshold, One}

\* the configurations the builder produces from these values
Configs ==
    {with_setpoint(with_anti_windup(with_output_limits(with_kd(with_ki(with_kp(
        ControllerConfig_new, kp), ki), kd), lim[1], lim[2]), aw), sp) :
        kp \in KpValues, ki \in KiValues, kd \in KdValues, lim \in Limits,
        aw \in BOOLEAN, sp \in Setpoints}

\* the calls of the builder with these values
BuilderCalls ==
    {<< "with_kp", << kp >> >> : kp \in KpValues}
    \cup {<< "with_ki", << ki >> >> : ki \in KiValues}
    \cup {<< "with_kd", << kd >> >> : kd \in KdValues}
    \cup {<< "with_output_limits", lim >> : lim \in Limits}
    \cup {<< "with_anti_windup", << aw >> >> : aw \in BOOLEAN}
    \cup {<< "with_setpoint", << sp >> >> : sp \in Setpoints}
builder_call(self, call) ==
    LET a == call[2]
    IN  CASE call[1] = "with_kp" -> with_kp(self, a[1])
          [] call[1] = "with_ki" -> with_ki(self, a[1])
          [] call[1] = "with_kd" -> with_kd(self, a[1])
          [] call[1] = "with_output_limits" -> with_output_limits(self, a[1], a[2])
          [] call[1] = "with_anti_windup" -> with_anti_windup(self, a[1])
          [] call[1] = "with_setpoint" -> with_setpoint(self, a[1])

NoStatistics ==
    [average_error |-> 0, max_overshoot |-> 0, settling_time |-> 0, rise_time |-> 0]
\* last before any call: the controller as constructed
NoCall(self) ==
    [op |-> "new", at |-> 0, error |-> 0, dt |-> 0, output |-> 0,
     raw_output |-> 0, d_term |-> 0, pre |-> self, statistics |-> NoStatistics]
\* a call made at the present instant
Called(op, self) == [NoCall(self) EXCEPT !.op = op, !.at = now]
\* a setter keeps no copy of the controller before it: what a setter changes
\* is read from the step it takes
SetCalled(self) == Called("set", self)
ComputeCalled(self, error, dt, r) ==
    [Called("compute", self) EXCEPT !.error = error, !.dt = dt,
                                    !.output = r.output,
                                    !.raw_output = r.raw_output,
                                    !.d_term = r.d_term]

(* ------------------- the single-threaded controller ------------------- *)
\* the value of a variable the specification at hand does not use
Unused == << >>
NoPair ==
    /\ controller_windup = Unused
    /\ controller_anti_windup = Unused
    /\ scenario = Unused
    /\ twin = Unused
    /\ builder = Unused
NoFacade ==
    /\ mutex = Unused
    /\ threads = Unused
    /\ observed = Unused
    /\ sequential = Unused
\* a call on the one controller pid, made by its one owner
Owned == UNCHANGED << pair_vars, facade_vars >>

\* PidController::new(config) for a configuration built by the builder
Init ==
    /\ \E config \in Configs : pid = PidController_new(config, 0)
    /\ now = 0
    /\ last = NoCall(pid)
    /\ NoPair
    /\ NoFacade

\* compute(error, dt), both readings of the clock within the same tick
Compute(error, dt) ==
    /\ Owned
    /\ pid.error_count < MaxCalls
    /\ LET r == compute(pid, error, dt, now, now)
       IN  /\ pid' = r.self
           /\ last' = ComputeCalled(pid, error, dt, r)
    /\ UNCHANGED now

Reset ==
    /\ Owned
    /\ pid' = reset(pid, now)
    /\ last' = Called("reset", pid)
    /\ UNCHANGED now

SetKp(kp) ==
    /\ Owned
    /\ pid' = set_kp(pid, kp)
    /\ last' = SetCalled(pid')
    /\ UNCHANGED now

SetKi(ki) ==
    /\ Owned
    /\ pid' = set_ki(pid, ki)
    /\ last' = SetCalled(pid')
    /\ UNCHANGED now

SetKd(kd) ==
    /\ Owned
    /\ pid' = set_kd(pid, kd)
    /\ last' = SetCalled(pid')
    /\ UNCHANGED now

SetOutputLimits(min, max) ==
    /\ Owned
    /\ pid' = set_output_limits(pid, min, max)
    /\ last' = SetCalled(pid')
    /\ UNCHANGED now

SetAntiWindup(enable) ==
    /\ Owned
    /\ pid' = set_anti_windup(pid, enable)
    /\ last' = SetCalled(pid')
    /\ UNCHANGED now

SetSetpoint(sp) ==
    /\ Owned
    /\ pid' = set_setpoint(pid, sp)
    /\ last' = SetCalled(pid')
    /\ UNCHANGED now

SetSettledThreshold(threshold) ==
    /\ Owned
    /\ pid' = set_settled_threshold(pid, threshold)
    /\ last' = SetCalled(pid')
    /\ UNCHANGED now

GetStatistics ==
    /\ Owned
    /\ last' = [Called("get_statistics", pid) EXCEPT
                  !.statistics = get_statistics(pid, now)]
    /\ UNCHANGED << pid, now >>

Next ==
    \/ \E error \in Errors, dt \in Dts : Compute(error, dt)
    \/ Reset
    \/ \E kp \in KpValues : SetKp(kp)
    \/ \E ki \in KiValues : SetKi(ki)
    \/ \E kd \in KdValues : SetKd(kd)
    \/ \E lim \in Limits : SetOutputLimits(lim[1], lim[2])
    \/ \E enable \in BOOLEAN : SetAntiWindup(enable)
    \/ \E sp \in Setpoints : SetSetpoint(sp)
    \/ \E threshold \in Thresholds : SetSettledThreshold(threshold)
    \/ GetStatistics

Spec == Init /\ [][Next]_vars

\* a controller that is tuned while it runs on a steady error: every setter,
\* and compute(1.0, 1.0)
NextSetters ==
    \/ Compute(One, One)
    \/ \E kp \in KpValues : SetKp(kp)
    \/ \E ki \in KiValues : SetKi(ki)
    \/ \E kd \in KdValues : SetKd(kd)
    \/ \E lim \in Limits : SetOutputLimits(lim[1], lim[2])
    \/ \E enable \in BOOLEAN : SetAntiWindup(enable)
    \/ \E sp \in Setpoints : SetSetpoint(sp)
    \/ \E threshold \in Thresholds : SetSettledThreshold(threshold)

SpecSetters == Init /\ [][NextSetters]_vars

(* ----------------------------- the builder ---------------------------- *)
\* let config = ControllerConfig::new()
InitBuilder ==
    /\ builder = ControllerConfig_new
    /\ pid = Unused
    /\ now = 0
    /\ last = Unused
    /\ controller_windup = Unused
    /\ controller_anti_windup = Unused
    /\ scenario = Unused
    /\ twin = Unused
    /\ NoFacade

\* config.with_...(...)
With(call) ==
    /\ builder' = builder_call(builder, call)
    /\ UNCHANGED << single_vars, controller_windup, controller_anti_windup,
                    scenario, twin, facade_vars >>

NextBuilder == \E call \in BuilderCalls : With(call)
SpecBuilder == InitBuilder /\ [][NextBuilder]_vars

\* the fields a builder method names, in the order of its arguments
NamedFields(method) ==
    CASE method = "with_kp" -> << "kp" >>
      [] method = "with_ki" -> << "ki" >>
      [] method = "with_kd" -> << "kd" >>
      [] method = "with_output_limits" -> << "min_output", "max_output" >>
      [] method = "with_anti_windup" -> << "anti_windup" >>
      [] method = "with_setpoint" -> << "setpoint" >>
Range(f) == {f[i] : i \in DOMAIN f}

\* C27: ControllerConfig::new() is kp = 1, ki = 0, kd = 0, unbounded limits,
\* anti_windup = false, setpoint = 0; a builder method returns the
\* configuration it is called on with the fields it names set to its
\* arguments and every other field as it was; and two builder calls on
\* different fields give the same configuration in either order.
C27_BuilderSetsNamedFields ==
    /\ builder = [kp |-> One, ki |-> 0, kd |-> 0,
                  min_output |-> NEG_INFINITY, max_output |-> INFINITY,
                  anti_windup |-> FALSE, setpoint |-> 0]
    /\ [][\A call \in BuilderCalls :
            /\ With(call)
               => /\ \A i \in DOMAIN NamedFields(call[1]) :
                       builder'[NamedFields(call[1])[i]] = call[2][i]
                  /\ \A f \in DOMAIN builder \ Range(NamedFields(call[1])) :
                       builder'[f] = builder[f]
                  /\ DOMAIN builder' = DOMAIN builder
            /\ \A other \in BuilderCalls :
                 other[1] # call[1]
                 => builder_call(builder_call(builder, call), other)
                    = builder_call(builder_call(builder, other), call)]_vars

\* a configuration with every field set by the builder to another value
\* than its default
C27_Witness ==
    /\ builder.kp = Half
    /\ builder.ki = 2 * One
    /\ builder.kd = One
    /\ builder.min_output = -One /\ builder.max_output = One
    /\ builder.anti_windup
    /\ builder.setpoint = One

(* ------------------ the controller as time passes --------------------- *)
\* the configurations of the timed runs: the default one and the
\* anti-windup configuration of tests::test_anti_windup
TimedConfigs ==
    {ControllerConfig_new,
     with_anti_windup(with_output_limits(with_kd(with_ki(with_kp(
        ControllerConfig_new, Half), Half), 0), -One, One), TRUE)}

InitTimed ==
    /\ \E config \in TimedConfigs : pid = PidController_new(config, 0)
    /\ now = 0
    /\ last = NoCall(pid)
    /\ NoPair
    /\ NoFacade

\* time passes between calls
Tick ==
    /\ Owned
    /\ now < MaxTime
    /\ now' = now + 1
    /\ UNCHANGED << pid, last >>

\* compute(error, dt): the clock may advance between the two readings
\* update_statistics takes of it
ComputeTimed(error, dt) ==
    /\ Owned
    /\ pid.error_count < MaxCalls
    /\ \E t2 \in {t \in {now, now + 1} : t <= MaxTime} :
         LET r == compute(pid, error, dt, now, t2)
         IN  /\ pid' = r.self
             /\ last' = ComputeCalled(pid, error, dt, r)
             /\ now' = t2

NextTimed ==
    \/ Tick
    \/ \E error \in Errors, dt \in Dts : ComputeTimed(error, dt)
    \/ Reset
    \/ \E threshold \in Thresholds : SetSettledThreshold(threshold)
    \/ GetStatistics

SpecTimed == InitTimed /\ [][NextTimed]_vars

(* -------------- tests::test_anti_windup: two controllers -------------- *)
config_with_windup ==
    with_anti_windup(with_output_limits(with_kd(with_ki(with_kp(
        ControllerConfig_new, Half), Half), 0), -One, One), FALSE)
config_with_anti_windup ==
    with_anti_windup(with_output_limits(with_kd(with_ki(with_kp(
        ControllerConfig_new, Half), Half), 0), -One, One), TRUE)
\* error = 10.0, recovery_error = -1.0, dt = 0.1
windup_error == 10 * One
recovery_error == -One
windup_dt == One \div 10
\* the iterations of the two loops of the test
SaturationCalls == 50
RecoveryCalls == 50

InitPair ==
    /\ controller_windup = PidController_new(config_with_windup, 0)
    /\ controller_anti_windup = PidController_new(config_with_anti_windup, 0)
    /\ scenario = [saturation |-> 0, recovery |-> 0,
                   output_windup |-> 0, output_anti_windup |-> 0]
    /\ twin = Unused
    /\ builder = Unused
    /\ now = 0
    /\ pid = Unused
    /\ last = Unused
    /\ NoFacade

\* both controllers compute the same error
ComputeBoth(error, dt) ==
    LET w == compute(controller_windup, error, dt, now, now)
        a == compute(controller_anti_windup, error, dt, now, now)
    IN  /\ controller_windup' = w.self
        /\ controller_anti_windup' = a.self
        /\ scenario' = [scenario EXCEPT !.output_windup = w.output,
                                        !.output_anti_windup = a.output,
                                        !.saturation =
                                            IF error = windup_error THEN @ + 1 ELSE @,
                                        !.recovery =
                                            IF error = recovery_error THEN @ + 1 ELSE @]
        /\ UNCHANGED << twin, builder, single_vars, facade_vars >>

\* an iteration of the first loop
Saturate ==
    /\ scenario.recovery = 0
    /\ scenario.saturation < MaxSaturationCalls
    /\ ComputeBoth(windup_error, windup_dt)

\* an iteration of the second loop, or the call after it whose outputs the
\* test compares
Recover ==
    /\ scenario.saturation >= 1
    /\ scenario.recovery < RecoveryCalls + 1
    /\ ComputeBoth(recovery_error, windup_dt)

NextPair == Saturate \/ Recover

SpecPair == InitPair /\ [][NextPair]_vars

\* C4: two controllers with kp = 0.5, ki = 0.5, kd = 0 and limits [-1, 1],
\* one with anti_windup, both fed error = 10, dt = 0.1: after every number
\* n >= 1 of calls (50 in the test) |integral| of the anti-windup controller
\* is strictly smaller than that of the other.
C4_AntiWindupIntegralSmaller ==
    (scenario.saturation >= 1 /\ scenario.recovery = 0)
    => FLt(FAbs(controller_anti_windup.integral),
           FAbs(controller_windup.integral))

\* the state the test asserts in: 50 calls made, the one integral at 50.0
C4_Witness ==
    /\ scenario.saturation = SaturationCalls
    /\ scenario.recovery = 0
    /\ controller_windup.integral = SaturationCalls * One
    /\ controller_anti_windup.integral = 0
    /\ scenario.output_windup = One
    /\ scenario.output_anti_windup = One

\* C5: after those 50 calls and 50 more with error = -1, the next
\* compute(-1, 0.1) returns a strictly lower output on the anti-windup
\* controller than on the other.
C5_AntiWindupRecoversFaster ==
    (scenario.saturation = SaturationCalls
     /\ scenario.recovery = RecoveryCalls + 1)
    => FLt(scenario.output_anti_windup, scenario.output_windup)

\* the outputs the test compares: the one still at max_output, the other
\* at min_output
C5_Witness ==
    /\ scenario.saturation = SaturationCalls
    /\ scenario.recovery = RecoveryCalls + 1
    /\ scenario.output_windup = One
    /\ scenario.output_anti_windup = -One
    /\ FGt(controller_windup.integral, 0)
    /\ FLt(controller_anti_windup.integral, 0)

(* ------------- tests::test_pid_control: a control loop ---------------- *)
pid_control_config ==
    with_output_limits(
        with_kd(with_ki(with_kp(ControllerConfig_new, 2 * One), Half),
                One \div 20),
        -(100 * One), 100 * One)
pid_control_setpoint == 10 * One
pid_control_dt == One \div 10
\* the 0.1 of process_value += control_signal * dt * 0.1
process_gain == One \div 10
\* for _ in 0..200
LoopIterations == 200
\* the band that ends the loop: 9.0 < process_value < 11.0
band_low == 9 * One
band_high == 11 * One

\* an error taken the wrong way round: process_value - setpoint
loop_error_reversed(target, process_value) == FSub(process_value, target)
\* let error = setpoint - process_value
loop_error(target, process_value) == FSub(target, process_value)

\* control_signal * dt * 0.1 is a multiple of no fixed-point unit: the loop
\* is followed with the product rounded down, to the nearest unit, and up
Roundings == {"down", "nearest", "up"}
process_step(control_signal, rounding) ==
    LET n == control_signal * pid_control_dt * process_gain
        d == One * One
    IN  IF rounding = "down" THEN n \div d
        ELSE IF rounding = "up" THEN -((-n) \div d)
        ELSE RoundDiv(n, d)

InitLoop ==
    /\ pid = PidController_new(pid_control_config, 0)
    /\ now = 0
    /\ last = NoCall(pid)
    /\ \E rounding \in Roundings :
         scenario = [iteration |-> 0, process_value |-> 0, done |-> FALSE,
                     rounding |-> rounding]
    /\ controller_windup = Unused
    /\ controller_anti_windup = Unused
    /\ twin = Unused
    /\ builder = Unused
    /\ NoFacade

\* one iteration of the loop: compute, move the process, leave the loop in
\* the band or after the last iteration
Iterate ==
    /\ ~scenario.done
    /\ scenario.iteration < LoopIterations
    /\ LET error == loop_error(pid_control_setpoint, scenario.process_value)
           r == compute(pid, error, pid_control_dt, now, now)
       IN  /\ pid' = r.self
           /\ last' = ComputeCalled(pid, error, pid_control_dt, r)
           /\ LET process_value ==
                      FAdd(scenario.process_value,
                           process_step(r.output, scenario.rounding))
                  in_band == /\ FGt(process_value, band_low)
                             /\ FLt(process_value, band_high)
              IN  scenario' =
                      [scenario EXCEPT
                         !.iteration = scenario.iteration + 1,
                         !.process_value = process_value,
                         !.done = in_band
                                  \/ scenario.iteration + 1 = LoopIterations]
    /\ UNCHANGED << now, controller_windup, controller_anti_windup, twin, builder,
                    facade_vars >>

NextLoop == Iterate
SpecLoop == InitLoop /\ [][NextLoop]_vars

\* C22: the loop of tests::test_pid_control (kp = 2.0, ki = 0.5, kd = 0.05,
\* limits [-100, 100], dt = 0.1, setpoint 10, the process starting at 0 and
\* moved by output * dt * 0.1) is left, after at most 200 iterations, with
\* the process value less than 1.0 away from the setpoint.
C22_LoopConverges ==
    /\ scenario.iteration <= LoopIterations
    /\ scenario.done
       => FLt(FAbs(FSub(scenario.process_value, pid_control_setpoint)), One)

\* the loop left in the band before its last iteration
C22_Witness ==
    /\ scenario.done
    /\ scenario.iteration < LoopIterations
    /\ FGt(scenario.process_value, band_low)
    /\ FLt(scenario.process_value, pid_control_setpoint)
    /\ pid.error_count = scenario.iteration

(* ---------------------- ThreadSafePidController ----------------------- *)
Threads == 1 .. NumThreads
NoThread == 0
\* Mutex::new: not held, not poisoned
Mutex_new == [holder |-> NoThread, poisoned |-> FALSE]

\* a facade that attaches a debugger to the controller it wraps
ThreadSafePidController_new_with_debugging(config, instant) ==
    with_debugging(PidController_new(config, instant), "DebugConfig")

\* ThreadSafePidController::new: the controller put behind the mutex
ThreadSafePidController_new(config, instant) ==
    PidController_new(config, instant)

\* a lock() that does not wait for the holder to drop its guard
lock_free_always(m) == TRUE

\* Mutex::lock returns once no thread holds the mutex
lock_free(m) == m.holder = NoThread

\* a get_control_signal without the first_run case
get_control_signal_unguarded(controller) ==
    apply_output_limits(
        FAdd(FMul(controller.config.kp, controller.prev_error),
             FMul(controller.config.ki, controller.integral)),
        controller.config)

\* what the facade computes from the stored error and integral
get_control_signal(controller) ==
    IF controller.first_run THEN 0
    ELSE LET p_term == FMul(controller.config.kp, controller.prev_error)
             i_term == FMul(controller.config.ki, controller.integral)
             d_term == 0
             output == FAdd(FAdd(p_term, i_term), d_term)
         IN  IF FGt(output, controller.config.max_output)
             THEN controller.config.max_output
             ELSE IF FLt(output, controller.config.min_output)
             THEN controller.config.min_output
             ELSE output

\* the configuration of tests::test_thread_safe_controller
facade_config ==
    with_output_limits(with_kd(with_ki(with_kp(
        ControllerConfig_new, One), One \div 10), 0), -10 * One, 10 * One)

\* a thread outside every facade call; inside one, result is what the call
\* is about to return and expected what the same call returned on the
\* single-threaded controller
IdleThread ==
    [pc |-> "idle", method |-> "none", args |-> << >>, result |-> 0,
     expected |-> 0]

\* a thread ended by a panic: it makes no further call
PanickedThread == [IdleThread EXCEPT !.pc = "panicked"]

\* the methods of the facade and the arguments the threads pass
FacadeCalls ==
    {<< "update_error", << error, dt >> >> : error \in {-One, One}, dt \in {One}}
    \cup {<< "get_control_signal", << >> >>, << "reset", << >> >>,
          << "get_statistics", << >> >>}
    \cup {<< "set_kp", << Half >> >>, << "set_ki", << Half >> >>,
          << "set_kd", << One >> >>, << "set_setpoint", << One >> >>,
          << "set_output_limits", << Half, One >> >>}
Reads == {"get_control_signal", "get_statistics"}

\* "performs the equivalent engine call": the call of a facade method on a
\* controller no other thread touches. engine is the controller after the
\* call and result what the call returns (0 for the methods that return
\* nothing)
engine_call(self, method, args, instant) ==
    CASE method = "update_error" ->
           LET r == compute(self, args[1], args[2], instant, instant)
           IN  [engine |-> r.self, result |-> r.output]
      [] method = "get_control_signal" ->
           [engine |-> self, result |-> get_control_signal(self)]
      [] method = "get_statistics" ->
           [engine |-> self, result |-> get_statistics(self, instant)]
      [] method = "reset" ->
           [engine |-> reset(self, instant), result |-> 0]
      [] method = "set_kp" ->
           [engine |-> set_kp(self, args[1]), result |-> 0]
      [] method = "set_ki" ->
           [engine |-> set_ki(self, args[1]), result |-> 0]
      [] method = "set_kd" ->
           [engine |-> set_kd(self, args[1]), result |-> 0]
      [] method = "set_setpoint" ->
           [engine |-> set_setpoint(self, args[1]), result |-> 0]
      [] method = "set_output_limits" ->
           [engine |-> set_output_limits(self, args[1], args[2]), result |-> 0]

InitFacade ==
    /\ pid = ThreadSafePidController_new(facade_config, 0)
    /\ now = 0
    /\ last = NoCall(pid)
    /\ mutex = Mutex_new
    /\ threads = [t \in Threads |-> IdleThread]
    /\ observed = 0
    /\ sequential = pid
    /\ NoPair

\* thread t enters a facade method; the update_error calls made and under
\* way stay below MaxUpdates
Call(t, call) ==
    /\ threads[t].pc = "idle"
    /\ call[1] = "update_error"
       => pid.error_count
            + Cardinality({u \in Threads : threads[u].method = "update_error"})
          < MaxUpdates
    /\ threads' = [threads EXCEPT ![t].pc = "lock", ![t].method = call[1],
                                  ![t].args = call[2]]
    /\ UNCHANGED << single_vars, mutex, observed, sequential, pair_vars >>

\* a lock() that recovers the guard from a poisoned mutex and goes on
LockIgnoringPoison(t) ==
    /\ threads[t].pc = "lock"
    /\ lock_free(mutex)
    /\ LET r == engine_call(sequential, threads[t].method,
                            threads[t].args, now)
       IN  /\ threads' = [threads EXCEPT ![t].pc = "held",
                                         ![t].expected = r.result]
           /\ mutex' = [mutex EXCEPT !.holder = t]
           /\ sequential' = r.engine
    /\ UNCHANGED << single_vars, observed, pair_vars >>

\* self.controller.lock().unwrap(): t waits for the mutex; a poisoned mutex
\* makes unwrap panic, the guard inside the error dropped
Lock(t) ==
    /\ threads[t].pc = "lock"
    /\ lock_free(mutex)
    /\ IF mutex.poisoned
       THEN /\ threads' = [threads EXCEPT ![t] = PanickedThread]
            /\ UNCHANGED << mutex, sequential >>
       ELSE LET r == engine_call(sequential, threads[t].method,
                                 threads[t].args, now)
            IN  /\ threads' = [threads EXCEPT ![t].pc = "held",
                                              ![t].expected = r.result]
                /\ mutex' = [mutex EXCEPT !.holder = t]
                /\ sequential' = r.engine
    /\ UNCHANGED << single_vars, observed, pair_vars >>

\* update_error, first half: compute has run update_statistics
UpdateErrorStatistics(t) ==
    /\ threads[t].pc = "held"
    /\ threads[t].method = "update_error"
    /\ pid' = update_statistics(pid, threads[t].args[1], now, now)
    /\ threads' = [threads EXCEPT ![t].pc = "statistics_updated"]
    /\ UNCHANGED << now, last, mutex, observed, sequential, pair_vars >>

\* update_error, second half: the rest of compute
UpdateErrorOutput(t) ==
    /\ threads[t].pc = "statistics_updated"
    /\ LET r == compute_output(pid, threads[t].args[1], threads[t].args[2])
       IN  /\ pid' = r.self
           /\ threads' = [threads EXCEPT ![t].pc = "unlock",
                                         ![t].result = r.output]
    /\ UNCHANGED << now, last, mutex, observed, sequential, pair_vars >>

\* a get_control_signal that uses up first_run, as compute does
GetControlSignalAdvancing(t) ==
    /\ threads[t].pc = "held"
    /\ threads[t].method = "get_control_signal"
    /\ threads' = [threads EXCEPT ![t].pc = "unlock",
                                  ![t].result = get_control_signal(pid)]
    /\ pid' = [pid EXCEPT !.first_run = FALSE]
    /\ UNCHANGED << now, last, mutex, sequential, pair_vars >>

GetControlSignal(t) ==
    /\ threads[t].pc = "held"
    /\ threads[t].method = "get_control_signal"
    /\ threads' = [threads EXCEPT ![t].pc = "unlock",
                                  ![t].result = get_control_signal(pid)]
    /\ UNCHANGED << single_vars, mutex, sequential, pair_vars >>

FacadeGetStatistics(t) ==
    /\ threads[t].pc = "held"
    /\ threads[t].method = "get_statistics"
    /\ threads' = [threads EXCEPT ![t].pc = "unlock",
                                  ![t].result = get_statistics(pid, now)]
    /\ UNCHANGED << single_vars, mutex, sequential, pair_vars >>

FacadeReset(t) ==
    /\ threads[t].pc = "held"
    /\ threads[t].method = "reset"
    /\ pid' = reset(pid, now)
    /\ threads' = [threads EXCEPT ![t].pc = "unlock"]
    /\ UNCHANGED << now, last, mutex, observed, sequential, pair_vars >>

\* a set_kd that was copied from set_kp and still calls it
FacadeSetMiswired(t) ==
    /\ threads[t].pc = "held"
    /\ LET a == threads[t].args
       IN  \/ threads[t].method = "set_kp" /\ pid' = set_kp(pid, a[1])
           \/ threads[t].method = "set_ki" /\ pid' = set_ki(pid, a[1])
           \/ threads[t].method = "set_kd" /\ pid' = set_kp(pid, a[1])
           \/ threads[t].method = "set_output_limits"
              /\ pid' = set_output_limits(pid, a[1], a[2])
           \/ threads[t].method = "set_setpoint"
              /\ pid' = set_setpoint(pid, a[1])
    /\ threads' = [threads EXCEPT ![t].pc = "unlock"]
    /\ UNCHANGED << now, last, mutex, observed, sequential, pair_vars >>

\* set_kp, set_ki, set_kd, set_output_limits, set_setpoint
FacadeSet(t) ==
    /\ threads[t].pc = "held"
    /\ LET a == threads[t].args
       IN  \/ threads[t].method = "set_kp" /\ pid' = set_kp(pid, a[1])
           \/ threads[t].method = "set_ki" /\ pid' = set_ki(pid, a[1])
           \/ threads[t].method = "set_kd" /\ pid' = set_kd(pid, a[1])
           \/ threads[t].method = "set_output_limits"
              /\ pid' = set_output_limits(pid, a[1], a[2])
           \/ threads[t].method = "set_setpoint"
              /\ pid' = set_setpoint(pid, a[1])
    /\ threads' = [threads EXCEPT ![t].pc = "unlock"]
    /\ UNCHANGED << now, last, mutex, observed, sequential, pair_vars >>

\* a return that leaks the guard: the mutex stays locked
UnlockLeaking(t) ==
    /\ threads[t].pc = "unlock"
    /\ threads' = [threads EXCEPT ![t] = IdleThread]
    /\ UNCHANGED << single_vars, mutex, observed, sequential, pair_vars >>

\* the method returns and its guard is dropped
Unlock(t) ==
    /\ threads[t].pc = "unlock"
    /\ mutex' = [mutex EXCEPT !.holder = NoThread]
    /\ threads' = [threads EXCEPT ![t] = IdleThread]
    /\ UNCHANGED << single_vars, observed, sequential, pair_vars >>

\* a thread between lock() and the drop of its guard
HasGuard(t) == threads[t].pc \in {"held", "statistics_updated", "unlock"}

NextFacade ==
    \E t \in Threads :
        \/ \E call \in FacadeCalls : Call(t, call)
        \/ Lock(t)
        \/ UpdateErrorStatistics(t)
        \/ UpdateErrorOutput(t)
        \/ GetControlSignal(t) /\ UNCHANGED observed
        \/ FacadeGetStatistics(t) /\ UNCHANGED observed
        \/ FacadeReset(t)
        \/ FacadeSet(t)
        \/ Unlock(t)

SpecFacade == InitFacade /\ [][NextFacade]_vars

\* a thread that holds the guard runs on: the method body and the return
Body(t) ==
    \/ UpdateErrorStatistics(t)
    \/ UpdateErrorOutput(t)
    \/ GetControlSignal(t) /\ UNCHANGED observed
    \/ FacadeGetStatistics(t) /\ UNCHANGED observed
    \/ FacadeReset(t)
    \/ FacadeSet(t)
    \/ Unlock(t)

\* the body of a method up to the value it returns, but for the second
\* half of update_error
BodyButOutput(t) ==
    \/ UpdateErrorStatistics(t)
    \/ GetControlSignal(t) /\ UNCHANGED observed
    \/ FacadeGetStatistics(t) /\ UNCHANGED observed
    \/ FacadeReset(t)
    \/ FacadeSet(t)
    \/ Unlock(t)
\* when UpdateErrorOutput(t) and when Lock(t) can be taken
UpdateErrorOutputEnabled(t) == threads[t].pc = "statistics_updated"
LockEnabled(t) == threads[t].pc = "lock" /\ lock_free(mutex)

\* fair scheduling: a running thread is not halted for ever (weak fairness
\* of the steps of a thread that holds the guard), and a thread in lock()
\* that finds the mutex free again and again gets it in the end (strong
\* fairness of Lock). WF_vars(UpdateErrorOutput(t)) and SF_vars(Lock(t)) are
\* written out, with the guard of the action for its ENABLED
FairCalls ==
    {call \in FacadeCalls :
        /\ call[1] \in {"update_error", "get_control_signal", "get_statistics",
                        "reset", "set_kp"}
        /\ call[1] = "update_error" => call[2][1] = One}
NextFair ==
    \E t \in Threads :
        \/ \E call \in FairCalls : Call(t, call)
        \/ Lock(t)
        \/ Body(t)
SpecFacadeFair ==
    /\ InitFacade
    /\ [][NextFair]_vars
    /\ \A t \in Threads :
         /\ WF_vars(BodyButOutput(t))
         /\ \/ []<>(~UpdateErrorOutputEnabled(t))
            \/ []<><< UpdateErrorOutput(t) >>_vars
         /\ \/ <>[](~LockEnabled(t))
            \/ []<><< Lock(t) >>_vars

\* C25: with no poisoning and fair scheduling, every facade call that has
\* come to lock() acquires the lock, completes and releases it; no thread
\* comes to lock() while it holds the lock, and whenever a call is under way
\* some thread can take a step: there is no deadlock.
C25_EveryCallCompletes ==
    /\ [](\A t \in Threads :
            /\ threads[t].pc = "lock" => mutex.holder # t
            /\ threads[t].pc # "panicked")
    /\ []((\E t \in Threads : threads[t].pc # "idle")
          => \E t \in Threads : HasGuard(t) \/ LockEnabled(t))
    /\ \A t \in Threads :
         (threads[t].pc = "lock")
           ~> (threads[t].pc = "unlock" /\ mutex.holder = t)
    /\ \A t \in Threads :
         (threads[t].pc = "unlock" /\ mutex.holder = t)
           ~> (threads[t].pc = "idle" /\ mutex.holder # t)

\* one thread waits in lock() while the other holds the guard, a call
\* already completed before
C25_Witness ==
    \E t, u \in Threads :
        /\ t # u
        /\ threads[t].pc = "lock"
        /\ threads[u].pc = "unlock"
        /\ mutex.holder = u
        /\ pid.error_count = 1

\* a panic in a method body: the guard is dropped as the stack unwinds, which
\* poisons the mutex and frees it; nothing catches the panic, and the
\* controller stays as the interrupted call left it
PanicHolding(t) ==
    /\ HasGuard(t)
    /\ mutex' = [holder |-> NoThread, poisoned |-> TRUE]
    /\ threads' = [threads EXCEPT ![t] = PanickedThread]
    /\ UNCHANGED << single_vars, observed, sequential, pair_vars >>

NextPoisoned ==
    \/ NextFacade
    \/ \E t \in Threads : PanicHolding(t)

SpecPoisoned == InitFacade /\ [][NextPoisoned]_vars

\* C24: a panic of a thread that holds the lock poisons the lock; from then
\* on the lock stays poisoned, every facade call that comes to acquire it
\* panics there, as any thread's does, no panicked call is taken up again,
\* no call gets the guard and the controller is never read or written again.
C24_PoisonIsFinal ==
    [][/\ \A t \in Threads :
            (HasGuard(t) /\ threads'[t].pc = "panicked") => mutex'.poisoned
       /\ mutex.poisoned
          => /\ mutex'.poisoned
             /\ mutex'.holder = NoThread
             /\ pid' = pid
             /\ \A t \in Threads :
                  /\ ~HasGuard(t)'
                  /\ threads[t].pc = "panicked" => threads'[t] = threads[t]
                  /\ (threads[t].pc = "lock" /\ threads'[t] # threads[t])
                     => threads'[t].pc = "panicked"]_vars

\* an update_error panicked half way, the statistics updated and
\* prev_error not; the call of another thread then panicked in lock()
C24_Witness ==
    \E t, u \in Threads :
        /\ t # u
        /\ mutex.poisoned
        /\ threads[t].pc = "panicked"
        /\ threads[u].pc = "panicked"
        /\ pid.error_count = 1 /\ pid.first_run
        /\ pid # sequential

\* thread 1 is the sensor thread of tests::test_thread_safe_controller and
\* calls update_error; the others read
Sensor == 1
CallAsInTest(t, call) ==
    /\ IF t = Sensor THEN call[1] = "update_error" ELSE call[1] \in Reads
    /\ Call(t, call)

\* a read, and the error_count of the controller it was served from
ReadObserved(t) ==
    /\ GetControlSignal(t) \/ FacadeGetStatistics(t)
    /\ observed' = pid.error_count

NextSensorAndReaders ==
    \E t \in Threads :
        \/ \E call \in FacadeCalls : CallAsInTest(t, call)
        \/ Lock(t)
        \/ UpdateErrorStatistics(t)
        \/ UpdateErrorOutput(t)
        \/ ReadObserved(t)
        \/ Unlock(t)

SpecSensorAndReaders == InitFacade /\ [][NextSensorAndReaders]_vars

\* the public operations of PidController, and those of
\* ThreadSafePidController
EngineOperations ==
    {"compute", "reset", "set_kp", "set_ki", "set_kd", "set_output_limits",
     "set_anti_windup", "set_setpoint", "setpoint", "set_settled_threshold",
     "get_statistics"}
FacadeMethods == {call[1] : call \in FacadeCalls}
\* update_error is the facade's compute; the others keep their names
facade_equivalent(op) == IF op = "compute" THEN "update_error" ELSE op

\* C23 as stated: every engine operation (compute, reset, set_kp, set_ki,
\* set_kd, set_output_limits, set_anti_windup, set_setpoint, the setpoint
\* accessor, set_settled_threshold, get_statistics) has an equivalent
\* operation on the facade, for a thread that is in no call to make.
C23_AsStated ==
    \A t \in Threads :
        threads[t].pc = "idle"
        => \A op \in EngineOperations : facade_equivalent(op) \in FacadeMethods

\* C23: compute, reset, set_kp, set_ki, set_kd, set_output_limits,
\* set_setpoint and get_statistics have an equivalent operation on the
\* facade, and every facade method, holding the lock, makes the engine call
\* of its name with its arguments and returns what that call returns:
\* update_error makes compute, in its two halves.
C23_FacadeMethodsCallEngine ==
    [][/\ \A t \in Threads :
            threads[t].pc = "idle"
            => \A op \in EngineOperations \ {"set_anti_windup", "setpoint",
                                              "set_settled_threshold"} :
                   facade_equivalent(op) \in FacadeMethods
       /\ \A t \in Threads :
            LET call == threads[t]
            IN  /\ (call.pc = "held" /\ threads'[t].pc = "unlock")
                   => LET r == engine_call(pid, call.method, call.args, now)
                      IN  /\ mutex.holder = t
                          /\ pid' = r.engine
                          /\ call.method \in Reads
                             => threads'[t].result = r.result
                /\ (call.pc = "held" /\ threads'[t].pc = "statistics_updated")
                   => /\ mutex.holder = t
                      /\ call.method = "update_error"
                      /\ pid' = update_statistics(pid, call.args[1], now, now)
                /\ (call.pc = "statistics_updated" /\ threads'[t].pc = "unlock")
                   => LET r == compute_output(pid, call.args[1], call.args[2])
                      IN  /\ mutex.holder = t
                          /\ pid' = r.self
                          /\ threads'[t].result = r.output]_vars

\* set_kd about to return after an update_error: kd is the value passed and
\* kp the configured one
C23_Witness ==
    \E t \in Threads :
        /\ threads[t].pc = "unlock"
        /\ threads[t].method = "set_kd"
        /\ pid.config.kd = One
        /\ pid.config.kp = facade_config.kp
        /\ pid.error_count = 1

\* C26: a controller made by ThreadSafePidController::new has no debugger
\* attached, at any time, so the compute that update_error runs while it
\* holds the lock hands nothing to send_debug_data: the one place where a
\* facade method could do I/O or wait while it holds the lock is never
\* entered.
C26_NoDebugDataInsideLock ==
    [][/\ is_none(pid.debugger) /\ is_none(pid'.debugger)
       /\ \A t \in Threads :
            (threads[t].pc = "statistics_updated" /\ threads'[t].pc = "unlock")
            => /\ mutex.holder = t
               /\ is_none(compute_output(pid, threads[t].args[1],
                                         threads[t].args[2]).debug_data)]_vars

\* the second update_error about to return, the lock still held
C26_Witness ==
    \E t \in Threads :
        /\ threads[t].pc = "unlock"
        /\ threads[t].method = "update_error"
        /\ mutex.holder = t
        /\ pid.error_count = 2
        /\ is_none(pid.debugger)

\* C35: in every state a caller can observe (no call under way, or a call
\* that has just acquired the lock and is about to read the controller),
\* first_run is true exactly when error_count is 0: the state half way
\* through compute, statistics updated and first_run not yet cleared, is
\* seen by no reader.
C35_FirstRunIffNoCalls ==
    (mutex.holder = NoThread \/ \E t \in Threads : threads[t].pc = "held")
    => (pid.first_run <=> pid.error_count = 0)

\* a first update_error half way, error_count 1 and first_run still set,
\* while a get_statistics of another thread waits in lock()
C35_Witness ==
    \E t, u \in Threads :
        /\ t # u
        /\ threads[t].pc = "statistics_updated"
        /\ pid.first_run /\ pid.error_count = 1
        /\ threads[u].pc = "lock" /\ threads[u].method = "get_statistics"
        /\ ~(pid.first_run <=> pid.error_count = 0)

\* C9: at most one facade call at a time reads or writes the wrapped
\* controller: a thread is between lock() and the drop of its guard only
\* while it holds the mutex, so no two threads are.
C9_OneCallAtATime ==
    /\ \A t \in Threads : HasGuard(t) => mutex.holder = t
    /\ Cardinality({t \in Threads : HasGuard(t)}) <= 1

\* one thread half way through update_error, with the statistics updated
\* and prev_error not yet, while another waits in lock()
C9_Witness ==
    \E t, u \in Threads :
        /\ t # u
        /\ threads[t].pc = "statistics_updated"
        /\ pid.first_run /\ pid.error_count = 1
        /\ threads[u].pc = "lock"
        /\ mutex.holder = t

\* C10: with one thread calling update_error and the others
\* get_statistics and get_control_signal (no reset, no poisoning), no call
\* panics and the error_count behind the successive reads never decreases.
C10_ReadsNeverGoBack ==
    [][/\ \A t \in Threads : threads'[t].pc # "panicked"
       /\ observed' >= observed]_vars

\* a reader that has read after the first update waits in lock() while the
\* sensor thread is half way through the second
C10_Witness ==
    \E t \in Threads \ {Sensor} :
        /\ observed = 1
        /\ threads[t].pc = "lock"
        /\ threads[Sensor].pc = "statistics_updated"
        /\ pid.error_count = 2

\* C11: the concurrent calls of the facade act as the same calls made one
\* at a time, in the order they acquired the lock, on one single-threaded
\* controller: when a call is about to return it returns what that
\* controller returned, and whenever no call is under way the wrapped
\* controller (integral, prev_error, statistics and all) equals it.
C11_AsInLockOrder ==
    /\ mutex.holder = NoThread => pid = sequential
    /\ \A t \in Threads :
          threads[t].pc = "unlock"
          => /\ pid = sequential
             /\ threads[t].result = threads[t].expected

\* the second update_error is about to return, after another thread's, on
\* a controller with a derivative gain, while a third call waits in lock()
C11_Witness ==
    \E t, u \in Threads :
        /\ t # u
        /\ threads[t].pc = "unlock"
        /\ threads[t].method = "update_error"
        /\ threads[u].pc = "lock"
        /\ pid.error_count = 2
        /\ pid.config.kd = One
        /\ pid.integral # 0
        /\ threads[t].result = threads[t].expected
        /\ threads[t].result # 0

\* C13: no step of a get_control_signal call changes the wrapped
\* controller: integral, prev_error, first_run, config and the statistics
\* are after the call what they were before it, so the update_error calls
\* around it find the controller they would have found without it.
C13_ControlSignalReadsOnly ==
    [][\A t \in Threads :
         (threads[t].method = "get_control_signal"
            \/ threads'[t].method = "get_control_signal")
         /\ threads'[t] # threads[t]
         => pid' = pid]_vars

\* a get_control_signal about to return a value other than 0 between two
\* update_error calls, the second waiting in lock()
C13_Witness ==
    \E t, u \in Threads :
        /\ threads[t].pc = "unlock"
        /\ threads[t].method = "get_control_signal"
        /\ threads[t].result # 0
        /\ pid.error_count = 1
        /\ threads[u].pc = "lock"
        /\ threads[u].method = "update_error"

\* C14: while first_run is true (no update_error since construction or
\* reset) get_control_signal returns 0, whatever the gains and the limits.
C14_NoSignalBeforeFirstRun ==
    \A t \in Threads :
        (/\ threads[t].pc = "unlock"
         /\ threads[t].method = "get_control_signal"
         /\ pid.first_run)
        => threads[t].result = 0

\* get_control_signal about to return 0 on a controller that has not run,
\* with gains a setter installed and limits that leave 0 outside
C14_Witness ==
    \E t \in Threads :
        /\ threads[t].pc = "unlock"
        /\ threads[t].method = "get_control_signal"
        /\ pid.first_run
        /\ pid.config.kp = Half
        /\ FGt(pid.config.min_output, 0)
        /\ threads[t].result = 0

(* ------------------ the facade in the hands of one thread ------------- *)
\* the configuration of tests::test_thread_safe_controller, the same with a
\* derivative gain, and the anti-windup configuration of tests::test_anti_windup
SampledConfigs ==
    {facade_config, with_kd(facade_config, One), config_with_anti_windup}

InitSampled ==
    /\ \E config \in SampledConfigs : pid = PidController_new(config, 0)
    /\ now = 0
    /\ last = NoCall(pid)
    /\ NoPair
    /\ NoFacade

\* update_error(error, dt) with no other thread about: lock, compute, unlock
UpdateError(error, dt) == Compute(error, dt)

\* get_control_signal() with no other thread about
ControlSignal ==
    /\ Owned
    /\ last' = [Called("get_control_signal", pid) EXCEPT
                    !.output = get_control_signal(pid)]
    /\ UNCHANGED << pid, now >>

NextSampled ==
    \/ \E error \in Errors, dt \in Dts : UpdateError(error, dt)
    \/ ControlSignal
    \/ Reset
    \/ \E kd \in KdValues : SetKd(kd)

SpecSampled == InitSampled /\ [][NextSampled]_vars

\* C12: get_control_signal() called right after an update_error (dt > 0),
\* with no setter or reset in between, returns the value that update_error
\* returned.
C12_SignalIsLastOutput ==
    [][(/\ last.op = "compute"
        /\ FGt(last.dt, 0)
        /\ last'.op = "get_control_signal")
       => last'.output = last.output]_vars

(* ------------------------- the control law ---------------------------- *)
\* output is at or beyond a bound in the direction of the error
SaturatedTowardsError(config, output, error) ==
    \/ FGe(output, config.max_output) /\ FGt(error, 0)
    \/ FLe(output, config.min_output) /\ FLt(error, 0)

\* C1: with min_output <= max_output, every compute(error, dt) with dt > 0
\* returns a value in [min_output, max_output], whatever calls came before.
C1_OutputWithinLimits ==
    (/\ last.op = "compute"
     /\ FGt(last.dt, 0)
     /\ FLe(pid.config.min_output, pid.config.max_output))
    => /\ FLe(pid.config.min_output, last.output)
       /\ FLe(last.output, pid.config.max_output)

\* a second or later compute call whose raw output was clamped from below,
\* on a controller whose limits a setter installed
C1_Witness ==
    /\ last.op = "compute"
    /\ FGt(last.dt, 0)
    /\ pid.error_count >= 2
    /\ pid.config.min_output = -One /\ pid.config.max_output = One
    /\ FLt(last.raw_output, pid.config.min_output)
    /\ last.output = pid.config.min_output

\* C2: with anti_windup on, a compute call whose output is at max_output
\* (output >= max_output) with error > 0, or at min_output with error < 0,
\* leaves the integral as it was, also when the raw output equals the bound.
C2_SaturatedIntegralFrozen ==
    (/\ last.op = "compute"
     /\ pid.config.anti_windup
     /\ SaturatedTowardsError(pid.config, last.output, last.error))
    => pid.integral = last.pre.integral

\* the raw output equals max_output, is not clamped, and error * dt # 0
C2_Witness ==
    /\ last.op = "compute"
    /\ pid.config.anti_windup
    /\ FGt(last.error, 0)
    /\ last.raw_output = pid.config.max_output
    /\ last.output = last.raw_output
    /\ FMul(last.error, last.dt) # 0
    /\ pid.integral = last.pre.integral

\* the cases C3 lists
C3_Cases ==
    \/ ~pid.config.anti_windup
    \/ ~(FGe(last.output, pid.config.max_output)
          \/ FLe(last.output, pid.config.min_output))
    \/ FGe(last.output, pid.config.max_output) /\ FLe(last.error, 0)
    \/ FLe(last.output, pid.config.min_output) /\ FGe(last.error, 0)

C3_Integrated ==
    pid.integral = FAdd(last.pre.integral, FMul(last.error, last.dt))

\* C3 as stated, for the limits a caller may set (min_output <= max_output):
\* in every compute call where anti_windup is off, or the output is not
\* saturated, or it is at max_output with error <= 0, or at min_output with
\* error >= 0, integral becomes integral + error * dt.
C3_AsStated ==
    (/\ last.op = "compute"
     /\ FLe(pid.config.min_output, pid.config.max_output)
     /\ C3_Cases)
    => C3_Integrated

\* C3, amended: the same for a controller with min_output < max_output.
C3_IntegralUpdated ==
    (/\ last.op = "compute"
     /\ FLt(pid.config.min_output, pid.config.max_output)
     /\ C3_Cases)
    => C3_Integrated

\* anti_windup on, the output clamped to max_output while error < 0: the
\* integral moved by error * dt
C3_Witness ==
    /\ last.op = "compute"
    /\ pid.config.anti_windup
    /\ FLt(pid.config.min_output, pid.config.max_output)
    /\ FGt(last.raw_output, pid.config.max_output)
    /\ FLt(last.error, 0)
    /\ pid.integral # last.pre.integral
    /\ C3_Integrated

\* kp * error + ki * (error * dt), within the limits
FirstOutput(config, error, dt) ==
    apply_output_limits(
        FAdd(FMul(config.kp, error), FMul(config.ki, FMul(error, dt))), config)

\* C6: the first compute call on a new controller, and the first after
\* reset(), has a derivative term of exactly 0 for every error and kd, and
\* returns clamp(kp * error + ki * error * dt).
C6_FirstCallNoDerivative ==
    (last.op = "compute" /\ last.pre.first_run)
    => /\ last.d_term = 0
       /\ last.output = FirstOutput(pid.config, last.error, last.dt)

\* C6 for the calls with dt # 0
C6_FirstCallNoDerivativeNonZeroDt ==
    (last.op = "compute" /\ last.pre.first_run /\ last.dt # 0)
    => /\ last.d_term = 0
       /\ last.output = FirstOutput(pid.config, last.error, last.dt)

\* C8: reset() leaves every field of config as it was.
C8_ResetKeepsConfig ==
    last.op = "reset" => pid.config = last.pre.config

\* a reset of a controller that has run, none of whose config fields is
\* the default
C8_Witness ==
    /\ last.op = "reset"
    /\ last.pre.error_count > 0
    /\ last.pre.integral # 0
    /\ pid.config.kp # ControllerConfig_default.kp
    /\ pid.config.ki # ControllerConfig_default.ki
    /\ pid.config.kd # ControllerConfig_default.kd
    /\ pid.config.min_output # ControllerConfig_default.min_output
    /\ pid.config.max_output # ControllerConfig_default.max_output
    /\ pid.config.anti_windup # ControllerConfig_default.anti_windup
    /\ pid.config.setpoint # ControllerConfig_default.setpoint

(* ------------- two controllers fed the same errors -------------------- *)
TwinConfigs ==
    {ControllerConfig_new, config_with_anti_windup, with_kd(facade_config, One),
     with_output_limits(with_ki(ControllerConfig_new, 2 * One), One, One)}

InitTwins ==
    /\ \E c1, c2 \in TwinConfigs :
          /\ pid = PidController_new(c1, 0)
          /\ twin = PidController_new(c2, 0)
    /\ builder = Unused
    /\ now = 0
    /\ last = NoCall(pid)
    /\ controller_windup = Unused
    /\ controller_anti_windup = Unused
    /\ scenario = Unused
    /\ NoFacade

\* compute with the same error on both, each with a dt of its own
ComputeTwins(error, dt, twin_dt) ==
    /\ pid.error_count < MaxCalls
    /\ LET r == compute(pid, error, dt, now, now)
       IN  /\ pid' = r.self
           /\ last' = ComputeCalled(pid, error, dt, r)
    /\ twin' = compute(twin, error, twin_dt, now, now).self
    /\ UNCHANGED << now, controller_windup, controller_anti_windup, scenario,
                    builder, facade_vars >>

\* set_settled_threshold(threshold) on both
SetSettledThresholdTwins(threshold) ==
    /\ pid' = set_settled_threshold(pid, threshold)
    /\ twin' = set_settled_threshold(twin, threshold)
    /\ last' = SetCalled(pid')
    /\ UNCHANGED << now, controller_windup, controller_anti_windup, scenario,
                    builder, facade_vars >>

NextTwins ==
    \/ \E error \in Errors, dt \in Dts, twin_dt \in Dts :
          ComputeTwins(error, dt, twin_dt)
    \/ \E threshold \in Thresholds : SetSettledThresholdTwins(threshold)

SpecTwins == InitTwins /\ [][NextTwins]_vars

\* what C16 compares
StatisticsState(self) ==
    [error_sum |-> self.error_sum,
     error_count |-> self.error_count,
     max_error |-> self.max_error,
     reached_setpoint |-> self.reached_setpoint,
     rise_time_set |-> ~is_none(self.rise_time),
     settle_time_set |-> ~is_none(self.settle_time)]

\* C16: two controllers with the same settled_threshold, whatever their
\* gains, limits and anti_windup, fed the same errors with any dt, have the
\* same error_sum, error_count, max_error and reached_setpoint, and
\* rise_time and settle_time set or unset alike, after every call.
C16_StatisticsOfErrorsOnly ==
    StatisticsState(pid) = StatisticsState(twin)

\* three calls on controllers that differ in every gain, in the limits and
\* in anti_windup, and whose integrals have parted; the setpoint was
\* reached and left again
C16_Witness ==
    /\ last.op = "compute"
    /\ pid.error_count = 3
    /\ pid.config.kp # twin.config.kp
    /\ pid.config.ki # twin.config.ki
    /\ pid.config.kd # twin.config.kd
    /\ pid.config.max_output # twin.config.max_output
    /\ pid.config.anti_windup # twin.config.anti_windup
    /\ pid.integral # twin.integral
    /\ pid.reached_setpoint /\ ~is_none(twin.rise_time)
    /\ is_none(pid.settle_time)
    /\ StatisticsState(pid) = StatisticsState(twin)

(* ---------------------------- statistics ------------------------------ *)
\* C15: every compute call adds exactly 1 to error_count and |error| to
\* error_sum, whether or not its output is clamped and whether or not
\* anti-windup leaves the integral as it was.
C15_EveryCallCounted ==
    last.op = "compute"
    => /\ pid.error_count = last.pre.error_count + 1
       /\ pid.error_sum = FAdd(last.pre.error_sum, FAbs(last.error))

\* a later call with a negative error, its output clamped and its integral
\* frozen by anti-windup
C15_Witness ==
    /\ last.op = "compute"
    /\ pid.config.anti_windup
    /\ FLt(last.error, 0)
    /\ FLt(last.raw_output, pid.config.min_output)
    /\ last.output = pid.config.min_output
    /\ FMul(last.error, last.dt) # 0
    /\ pid.integral = last.pre.integral
    /\ last.pre.error_count >= 1
    /\ pid.error_count = last.pre.error_count + 1
    /\ pid.error_sum = FAdd(last.pre.error_sum, One)

\* |error| <= settled_threshold
InBand(error, self) == FLe(FAbs(error), self.settled_threshold)
\* the step is a compute call
ComputeStep == pid'.error_count = pid.error_count + 1

\* C17: once reached_setpoint is set and rise_time recorded, no compute
\* call and no setter changes them; a call with |error| above the threshold
\* clears settle_time and leaves both; only reset() clears them.
C17_RiseTimeSticky ==
    [][/\ (pid.reached_setpoint /\ last'.op # "reset")
          => /\ pid'.reached_setpoint
             /\ ~is_none(pid.rise_time)
             /\ pid'.rise_time = pid.rise_time
       /\ (ComputeStep /\ FGt(FAbs(last'.error), pid.settled_threshold))
          => is_none(pid'.settle_time)
       /\ (pid.reached_setpoint /\ last'.op = "reset")
          => ~pid'.reached_setpoint /\ is_none(pid'.rise_time)]_vars

\* an excursion after the controller had settled, made later than the
\* instant rise_time recorded
C17_Witness ==
    /\ last.op = "compute"
    /\ FGt(FAbs(last.error), pid.settled_threshold)
    /\ ~is_none(last.pre.settle_time)
    /\ is_none(pid.settle_time)
    /\ pid.reached_setpoint
    /\ ~is_none(pid.rise_time)
    /\ pid.rise_time = last.pre.rise_time
    /\ unwrap(pid.rise_time) < last.at - pid.start_time

\* C18: right after every compute call settle_time is set if and only if
\* |error| <= settled_threshold held in that call.
C18_SettledIffInBand ==
    last.op = "compute"
    => (~is_none(pid.settle_time) <=> InBand(last.error, pid))

\* a call within the band on a controller that was within it before
C18_Witness ==
    /\ last.op = "compute"
    /\ InBand(last.error, pid)
    /\ ~is_none(last.pre.settle_time)
    /\ ~is_none(pid.settle_time)
    /\ pid.error_count >= 2

\* C19: a compute call within the band keeps a settle_time that is set, so
\* the value of the first call of an unbroken run stays; one that finds it
\* unset (the first ever, or the first after an excursion) records the
\* present instant, which is not before any instant recorded earlier.
C19_SettleTimeOfRunStart ==
    [][/\ ~is_none(pid.settle_time)
          => unwrap(pid.settle_time) <= now - pid.start_time
       /\ (ComputeStep /\ InBand(last'.error, pid))
          => IF is_none(pid.settle_time)
             THEN pid'.settle_time = Some(now' - pid.start_time)
             ELSE pid'.settle_time = pid.settle_time
       /\ (/\ ComputeStep /\ InBand(last'.error, pid)
           /\ last.op = "compute" /\ ~is_none(last.pre.settle_time)
           /\ is_none(pid.settle_time))
          => unwrap(pid'.settle_time) >= unwrap(last.pre.settle_time)]_vars

\* the first call within the band after an excursion: settle_time is later
\* than rise_time, the instant of the first entry
C19_Witness ==
    /\ last.op = "compute"
    /\ InBand(last.error, pid)
    /\ last.pre.reached_setpoint
    /\ is_none(last.pre.settle_time)
    /\ ~is_none(pid.settle_time)
    /\ unwrap(pid.settle_time) > unwrap(pid.rise_time)

\* C20 as stated: get_statistics reports as settling_time the time passed
\* since the controller settled when settle_time is set, and the time
\* passed since start_time when it is not.
C20_AsStated ==
    last.op = "get_statistics"
    => last.statistics.settling_time =
         IF is_none(pid.settle_time)
         THEN as_secs_f64(last.at - pid.start_time)
         ELSE as_secs_f64(last.at - (pid.start_time + unwrap(pid.settle_time)))

\* C20, amended: get_statistics reports as settling_time the recorded
\* settle_time, the time from start_time to the instant the controller
\* settled, when it is set, and the time passed since start_time when it is
\* not.
C20_SettlingTimeReported ==
    last.op = "get_statistics"
    => last.statistics.settling_time =
         IF is_none(pid.settle_time)
         THEN as_secs_f64(last.at - pid.start_time)
         ELSE as_secs_f64(unwrap(pid.settle_time))

\* get_statistics on a controller that settled one tick after its start,
\* called one tick after that
C20_Witness ==
    /\ last.op = "get_statistics"
    /\ ~is_none(pid.settle_time)
    /\ unwrap(pid.settle_time) = 1
    /\ last.at - pid.start_time = 2
    /\ last.statistics.settling_time = One

\* the larger of two magnitudes
LargerOf(a, b) == IF FGt(b, a) THEN b ELSE a

\* C21: get_statistics reports average_error = error_sum / error_count (0
\* with no call counted), max_overshoot = max_error and rise_time = the
\* recorded value, NaN when there is none, and changes nothing of the
\* controller; max_error is the largest |error| of the compute calls since
\* construction or the last reset: 0 then, and raised by every larger |error|.
C21_StatisticsReported ==
    [][/\ last'.op = "get_statistics"
          => /\ pid' = pid
             /\ last'.statistics.average_error =
                  (IF pid.error_count = 0 THEN 0
                   ELSE FDiv(pid.error_sum, AsF64(pid.error_count)))
             /\ last'.statistics.max_overshoot = pid.max_error
             /\ last'.statistics.rise_time =
                  (IF is_none(pid.rise_time) THEN NAN
                   ELSE as_secs_f64(unwrap(pid.rise_time)))
       /\ ComputeStep
          => pid'.max_error = LargerOf(pid.max_error, FAbs(last'.error))
       /\ last'.op = "reset" => pid'.max_error = 0
       /\ (~ComputeStep /\ last'.op # "reset")
          => pid'.max_error = pid.max_error]_vars

\* get_statistics after the calls compute(1, _) and compute(0, _), the
\* second of them in the band and a tick after the start
C21_Witness ==
    /\ last.op = "get_statistics"
    /\ pid.error_count = 2
    /\ pid.prev_error = 0
    /\ last.statistics.average_error = Half
    /\ last.statistics.max_overshoot = One
    /\ last.statistics.rise_time >= One
    /\ ~IsNaN(last.statistics.rise_time)

(* ------------------- the control law, step by step ------------------- *)
\* C28: when the raw output lies within [min_output, max_output], the
\* bounds in order, compute returns the raw output itself.
C28_InRangeUnclamped ==
    (/\ last.op = "compute"
     /\ FLe(pid.config.min_output, pid.config.max_output)
     /\ FLe(pid.config.min_output, last.raw_output)
     /\ FLe(last.raw_output, pid.config.max_output))
    => last.output = last.raw_output

\* a raw output of 0.5 strictly inside the limits [-1, 1]
C28_Witness ==
    /\ last.op = "compute"
    /\ pid.config.min_output = -One /\ pid.config.max_output = One
    /\ last.raw_output = Half
    /\ last.output = Half

\* C29: a compute that is not a first run returns
\* clamp(kp * error + ki * (integral + error * dt)
\*       + kd * (error - prev_error) / dt)
\* of the integral and prev_error it finds; every compute leaves prev_error
\* = its error, and no call but compute and reset (no setter, no
\* get_statistics) changes prev_error, integral or first_run: prev_error is
\* the error of the compute just before.
C29_ControlLaw ==
    /\ [](last.op = "compute"
          => /\ pid.prev_error = last.error
             /\ ~last.pre.first_run
                => last.output =
                     apply_output_limits(
                         FAdd(FAdd(FMul(last.pre.config.kp, last.error),
                                   FMul(last.pre.config.ki,
                                        FAdd(last.pre.integral,
                                             FMul(last.error, last.dt)))),
                              FDiv(FMul(last.pre.config.kd,
                                        FSub(last.error, last.pre.prev_error)),
                                   last.dt)),
                         last.pre.config))
    /\ [][(~ComputeStep /\ last'.op # "reset")
          => /\ pid'.prev_error = pid.prev_error
             /\ pid'.integral = pid.integral
             /\ pid'.first_run = pid.first_run]_vars

\* compute(-1, 1) after compute(1, _) and a setter, with kd = 1 and
\* ki = 2: a derivative term of -2
C29_Witness ==
    /\ last.op = "compute"
    /\ ~last.pre.first_run
    /\ last.pre.prev_error = One
    /\ last.error = -One /\ last.dt = One
    /\ pid.config.kd = One /\ pid.config.ki = 2 * One
    /\ last.d_term = -2 * One
    /\ pid.prev_error = -One

\* b is a but for the fields named: config_fields of config, fields of the
\* controller
SameBut(a, b, config_fields, fields) ==
    /\ \A f \in DOMAIN a.config \ config_fields : b.config[f] = a.config[f]
    /\ \A f \in DOMAIN a \ (fields \cup {"config"}) : b[f] = a[f]
    /\ DOMAIN b = DOMAIN a /\ DOMAIN b.config = DOMAIN a.config

\* C30: set_kp, set_ki, set_kd, set_output_limits, set_anti_windup,
\* set_setpoint and set_settled_threshold set the parameter they name to
\* their argument and leave every other parameter, integral, prev_error,
\* first_run and the statistics as they were; and every compute would have
\* returned the same output, and ended in the same state but for the
\* setpoint, had set_setpoint been called just before it with any value.
C30_SettersSetOnlyTheirParameter ==
    /\ [][/\ \A kp \in KpValues :
                SetKp(kp) => pid'.config.kp = kp /\ SameBut(pid, pid', {"kp"}, {})
           /\ \A ki \in KiValues :
                SetKi(ki) => pid'.config.ki = ki /\ SameBut(pid, pid', {"ki"}, {})
           /\ \A kd \in KdValues :
                SetKd(kd) => pid'.config.kd = kd /\ SameBut(pid, pid', {"kd"}, {})
           /\ \A lim \in Limits :
                SetOutputLimits(lim[1], lim[2])
                => /\ pid'.config.min_output = lim[1]
                   /\ pid'.config.max_output = lim[2]
                   /\ SameBut(pid, pid', {"min_output", "max_output"}, {})
           /\ \A enable \in BOOLEAN :
                SetAntiWindup(enable)
                => /\ pid'.config.anti_windup = enable
                   /\ SameBut(pid, pid', {"anti_windup"}, {})
           /\ \A sp \in Setpoints :
                SetSetpoint(sp)
                => pid'.config.setpoint = sp /\ SameBut(pid, pid', {"setpoint"}, {})
           /\ \A threshold \in Thresholds :
                SetSettledThreshold(threshold)
                => /\ pid'.settled_threshold = threshold
                   /\ SameBut(pid, pid', {}, {"settled_threshold"})]_vars
    /\ [](last.op = "compute"
          => \A sp \in Setpoints :
                LET with == compute(set_setpoint(last.pre, sp), last.error,
                                    last.dt, last.at, last.at)
                IN  /\ with.output = last.output
                    /\ with.self = set_setpoint(pid, sp))

\* a setter called on a controller that has run twice and holds an
\* integral, with the setpoint set
C30_Witness ==
    /\ last.op = "set"
    /\ pid.error_count = 2
    /\ ~pid.first_run
    /\ pid.integral # 0 /\ pid.prev_error # 0
    /\ pid.config.setpoint = One
    /\ pid.config.ki # 0

C32_IntegralIsTheSum ==
    /\ [](last.op \in {"new", "reset"} => pid.integral = 0)
    /\ [][/\ (ComputeStep /\ ~pid.config.anti_windup)
             => pid'.integral = FAdd(pid.integral, FMul(last'.error, last'.dt))
          /\ (~ComputeStep /\ last'.op # "reset")
             => pid'.integral = pid.integral]_vars

\* two computes of error 1 with dt 1, the output held at max_output = 1 by
\* the clamp and anti_windup off: the integral is 2
C32_Witness ==
    /\ last.op = "compute"
    /\ ~pid.config.anti_windup
    /\ pid.error_count = 2
    /\ pid.config.max_output = One /\ pid.config.min_output = -One
    /\ FGt(last.raw_output, pid.config.max_output)
    /\ last.output = One
    /\ last.error = One /\ last.dt = One
    /\ last.pre.integral = One
    /\ pid.integral = 2 * One

\* anti-windup at work: kp >= 0, ki > 0, kd = 0, limits around 0
AntiWindupConfigs ==
    {with_anti_windup(
         with_output_limits(with_ki(with_kp(ControllerConfig_new, kp), ki),
                            lim[1], lim[2]),
         TRUE) :
        kp \in {0, One}, ki \in {Half, 2 * One},
        lim \in {<< -One, One >>, << 0, One >>, << -One, 0 >>, << 0, 0 >>}}
AntiWindupErrors == Errors \cup {3 * One}
PositiveDts == {Half, One}

InitAntiWindup ==
    /\ \E config \in AntiWindupConfigs : pid = PidController_new(config, 0)
    /\ now = 0
    /\ last = NoCall(pid)
    /\ NoPair
    /\ NoFacade

\* compute calls with dt > 0, and reset; no setter
NextAntiWindup ==
    \/ \E error \in AntiWindupErrors, dt \in PositiveDts : Compute(error, dt)
    \/ Reset

SpecAntiWindup == InitAntiWindup /\ [][NextAntiWindup]_vars

\* C33: with anti_windup on, kp >= 0, ki > 0, kd = 0, min_output <= 0 <=
\* max_output, gains and limits never changed and every dt > 0, the integral
\* contribution ki * integral stays within [min_output, max_output] from
\* construction or reset on.
C33_IntegralTermWithinLimits ==
    /\ FLe(pid.config.min_output, FMul(pid.config.ki, pid.integral))
    /\ FLe(FMul(pid.config.ki, pid.integral), pid.config.max_output)

\* a third compute whose output is held at max_output = 1 with a positive
\* error: the integral, not 0, is kept as it was
C33_Witness ==
    /\ last.op = "compute"
    /\ pid.error_count = 3
    /\ last.error = 3 * One
    /\ FGt(last.raw_output, pid.config.max_output)
    /\ last.output = One
    /\ pid.integral # 0
    /\ pid.integral = last.pre.integral

(* --------------------- rise and settle, together ---------------------- *)
\* C34: in every reachable state a settle_time is set only when
\* reached_setpoint is, rise_time is set exactly when reached_setpoint is,
\* and when both times are set rise_time <= settle_time.
C34_RiseBeforeSettle ==
    /\ ~is_none(pid.settle_time) => pid.reached_setpoint
    /\ ~is_none(pid.rise_time) <=> pid.reached_setpoint
    /\ (~is_none(pid.rise_time) /\ ~is_none(pid.settle_time))
       => unwrap(pid.rise_time) <= unwrap(pid.settle_time)

\* the error came into the band, left it and came back later: a settle_time
\* after the rise_time
C34_Witness ==
    /\ pid.reached_setpoint
    /\ ~is_none(pid.rise_time) /\ ~is_none(pid.settle_time)
    /\ unwrap(pid.rise_time) < unwrap(pid.settle_time)
    /\ pid.error_count = 3

(* --------------------- the average and the maximum -------------------- *)
\* error_sum, max_error and the average in binary floating point: an f64
\* keeps 53 significant bits, the model keeps Precision of them. Values are
\* whole numbers of the smallest positive value, and no value overflows.
Precision == 5

RECURSIVE Pow2(_)
Pow2(n) == IF n = 0 THEN 1 ELSE 2 * Pow2(n - 1)

\* the spacing of the representable values around n / d, from u up
RECURSIVE ulp_of(_, _, _)
ulp_of(n, d, u) ==
    IF n < d * u * Pow2(Precision) THEN u ELSE ulp_of(n, d, 2 * u)

\* n / d >= 0 rounded to the nearest representable value, ties to even
round_ties_even(n, d) ==
    LET u == ulp_of(n, d, 1)
        q == n \div (d * u)
        r == n - q * d * u
    IN  IF 2 * r < d * u THEN q * u
        ELSE IF 2 * r > d * u THEN (q + 1) * u
        ELSE IF q % 2 = 0 THEN q * u
        ELSE (q + 1) * u

f64_add(a, b) == round_ties_even(a + b, 1)
f64_div(a, b) == round_ties_even(a, b)

\* the fields update_statistics adds the error to, as new and reset set them
error_statistics_new == [error_sum |-> 0, error_count |-> 0, max_error |-> 0]

\* max_error set to the size of the latest error
accumulate_error_latest(self, error) ==
    [self EXCEPT !.error_sum = f64_add(@, Mag(error)),
                 !.error_count = @ + 1,
                 !.max_error = Mag(error)]

\* update_statistics, up to the running maximum
accumulate_error(self, error) ==
    LET s1 == [self EXCEPT !.error_sum = f64_add(@, Mag(error)),
                           !.error_count = @ + 1]
    IN  IF Mag(error) > s1.max_error
        THEN [s1 EXCEPT !.max_error = Mag(error)]
        ELSE s1

\* get_statistics, the two fields computed from them
error_statistics(self) ==
    [average_error |-> IF self.error_count > 0
                       THEN f64_div(self.error_sum, self.error_count)
                       ELSE 0,
     max_overshoot |-> self.max_error]

\* errors an f64 of Precision bits holds exactly
RoundedErrors == {-26, -25, 0, 13, 25, 26}

\* last.exact_sum is the sum of the sizes of the errors, not rounded
InitRounded ==
    /\ pid = error_statistics_new
    /\ now = 0
    /\ last = [op |-> "new", error |-> 0, exact_sum |-> 0,
               statistics |-> NoStatistics]
    /\ NoPair
    /\ NoFacade

ComputeRounded(error) ==
    /\ pid.error_count < MaxCalls
    /\ pid' = accumulate_error(pid, error)
    /\ last' = [op |-> "compute", error |-> error,
                exact_sum |-> last.exact_sum + Mag(error),
                statistics |-> NoStatistics]
    /\ UNCHANGED << now, pair_vars, facade_vars >>

ResetRounded ==
    /\ pid' = error_statistics_new
    /\ last' = [op |-> "reset", error |-> 0, exact_sum |-> 0,
                statistics |-> NoStatistics]
    /\ UNCHANGED << now, pair_vars, facade_vars >>

GetStatisticsRounded ==
    /\ last' = [last EXCEPT !.op = "get_statistics",
                            !.statistics = error_statistics(pid)]
    /\ UNCHANGED << pid, now, pair_vars, facade_vars >>

NextRounded ==
    \/ \E error \in RoundedErrors : ComputeRounded(error)
    \/ ResetRounded
    \/ GetStatisticsRounded

SpecRounded == InitRounded /\ [][NextRounded]_vars

\* C36 as stated: in every reachable state error_sum <= max_error *
\* error_count, the average_error get_statistics reports is never above the
\* max_overshoot it reports, and max_error never decreases but by reset.
C36_AsStated ==
    /\ [](/\ pid.error_sum <= pid.max_error * pid.error_count
          /\ error_statistics(pid).average_error
                 <= error_statistics(pid).max_overshoot)
    /\ [][last'.op # "reset" => pid'.max_error >= pid.max_error]_vars

\* C36: max_error never decreases but by reset, and the sum of the sizes of
\* the errors is at most max_error * error_count; error_sum is that sum with
\* every addition rounded, above it by at most (error_count - 1) *
\* 2^-Precision * error_sum, and the reported average is at most the
\* reported max_overshoot whenever error_sum <= max_error * error_count.
C36_AverageWithinMaximumUpToRounding ==
    /\ [](/\ last.exact_sum <= pid.max_error * pid.error_count
          /\ pid.error_count > 0
                 => pid.error_sum * (Pow2(Precision) - (pid.error_count - 1))
                        <= last.exact_sum * Pow2(Precision)
          /\ pid.error_sum <= pid.max_error * pid.error_count
                 => error_statistics(pid).average_error
                        <= error_statistics(pid).max_overshoot)
    /\ [][last'.op # "reset" => pid'.max_error >= pid.max_error]_vars

\* three errors of 26: 52, then 78 rounded to 80, above 3 * 26, and an
\* average of 80 / 3 rounded to 27, above the maximum 26
C36_Witness ==
    /\ last.op = "get_statistics"
    /\ pid.error_count = 3
    /\ pid.max_error = 26
    /\ last.exact_sum = 78
    /\ pid.error_sum = 80
    /\ last.statistics.average_error = 27
    /\ last.statistics.max_overshoot = 26

(* ------------------- the threshold across a reset --------------------- *)
\* C37: reset leaves settled_threshold as it was, and so does compute; the
\* rise detection of a compute call compares the size of the error with the
\* threshold the controller held before the call, so a threshold installed
\* with set_settled_threshold before a reset is the one used after it.
C37_ResetKeepsThreshold ==
    /\ last.op \in {"reset", "compute"}
           => pid.settled_threshold = last.pre.settled_threshold
    /\ (last.op = "compute" /\ ~last.pre.reached_setpoint)
           => /\ pid.reached_setpoint
                     <=> FLe(FAbs(last.error), last.pre.settled_threshold)
              /\ is_none(pid.rise_time) <=> ~pid.reached_setpoint

\* after a reset at time 1 or later, with the threshold 1 installed: a first
\* compute with an error of size 1, outside the default band of 0.05, is
\* taken as reaching the setpoint
C37_Witness ==
    /\ last.op = "compute"
    /\ last.pre.start_time > 0
    /\ last.pre.error_count = 0
    /\ last.pre.settled_threshold = One
    /\ last.error = One
    /\ FGt(FAbs(last.error), DefaultSettledThreshold)
    /\ pid.reached_setpoint
    /\ ~is_none(pid.rise_time)

(* ----------------------------- any dt --------------------------------- *)
\* a time step that is negative, zero or positive
AnyDts == {-One, 0, One}
AnyDtConfigs == {config \in Configs : config.setpoint = 0}

InitAnyDt ==
    /\ \E config \in AnyDtConfigs : pid = PidController_new(config, 0)
    /\ now = 0
    /\ last = NoCall(pid)
    /\ NoPair
    /\ NoFacade

NextAnyDt ==
    \/ \E error \in Errors, dt \in AnyDts : Compute(error, dt)
    \/ Reset

SpecAnyDt == InitAnyDt /\ [][NextAnyDt]_vars

\* C38: compute takes any dt, zero and negative included: every call counts
\* the error in the statistics, stores it as prev_error, ends the first run
\* and returns the clamped raw output as an f64 (NaN and the infinities
\* included); the controller gains no field that marks an input as invalid.
C38_ComputeAcceptsAnyDt ==
    last.op = "compute"
    => /\ pid.error_count = last.pre.error_count + 1
       /\ pid.error_sum = FAdd(last.pre.error_sum, FAbs(last.error))
       /\ pid.prev_error = last.error
       /\ ~pid.first_run
       /\ last.output = apply_output_limits(last.raw_output, pid.config)
       /\ last.output \in Int
       /\ DOMAIN pid = DOMAIN last.pre

\* a second compute with dt = -1 and a derivative term that is not 0
C38_Witness ==
    /\ last.op = "compute"
    /\ last.dt = -One
    /\ pid.error_count = 2
    /\ pid.prev_error = last.error
    /\ ~IsNaN(last.d_term) /\ last.d_term # 0

(* ----------------------- the debugger attached ------------------------ *)
\* mpsc::channel::<ControllerDebugData>(100)
ChannelCapacity == 100

\* the channel and the background thread ControllerDebugger::new starts: the
\* thread is connecting to the broker, then receives, or is gone with the
\* receiving end once the connection has failed
channel_new == [queue |-> << >>, receiver |-> "connecting"]

\* the fields of ControllerDebugger that send_debug_data reads and writes
ControllerDebugger_new(sample_interval, instant) ==
    [sample_interval |-> sample_interval, last_sample |-> instant]

\* a send that queues the message whatever the state of the channel
try_send_unbounded(channel, message) ==
    [channel |-> [channel EXCEPT !.queue = Append(@, message)], ok |-> TRUE]

\* Sender::try_send: an error at once, the message lost, when the receiver
\* is gone or the channel is full
try_send(channel, message) ==
    IF channel.receiver = "gone" \/ Len(channel.queue) >= ChannelCapacity
    THEN [channel |-> channel, ok |-> FALSE]
    ELSE [channel |-> [channel EXCEPT !.queue = Append(@, message)],
          ok |-> TRUE]

\* the timestamp and the controller_id of the message are left out
send_debug_data(debugger, channel, message, instant) ==
    IF /\ ~is_none(debugger.sample_interval)
       /\ instant - debugger.last_sample < unwrap(debugger.sample_interval)
    THEN [debugger |-> debugger, channel |-> channel, outcome |-> "skipped"]
    ELSE LET sent == try_send(channel, message)
         IN  [debugger |-> IF is_none(debugger.sample_interval)
                           THEN debugger
                           ELSE [debugger EXCEPT !.last_sample = instant],
              channel |-> sent.channel,
              outcome |-> IF sent.ok THEN "sent" ELSE "dropped"]

\* sample_rate_hz: none, or one sample a tick
SampleIntervals == {None, Some(1)}
DebuggedConfigs == {config_with_windup, config_with_anti_windup}

\* pid has a debugger, twin is the same controller without; scenario is the
\* channel; last tells whether the call found the channel full, what the
\* receiver was, and whether the message was queued
InitDebugged ==
    /\ \E config \in DebuggedConfigs, sample_interval \in SampleIntervals :
         /\ pid = with_debugging(PidController_new(config, 0),
                                 ControllerDebugger_new(sample_interval, 0))
         /\ twin = PidController_new(config, 0)
    /\ scenario = channel_new
    /\ now = 0
    /\ last = [op |-> "new", error |-> 0, dt |-> 0, output |-> 0,
               twin_output |-> 0, outcome |-> "skipped", full |-> FALSE,
               queued |-> FALSE, receiver |-> "connecting"]
    /\ controller_windup = Unused
    /\ controller_anti_windup = Unused
    /\ builder = Unused
    /\ NoFacade

\* long runs of one error when every call is sampled, short runs of every
\* error otherwise
DebuggedCalls ==
    IF is_none(unwrap(pid.debugger).sample_interval) THEN MaxDebugCalls
    ELSE MaxCalls
DebuggedErrors ==
    IF is_none(unwrap(pid.debugger).sample_interval) THEN {One} ELSE Errors
DebuggedDts ==
    IF is_none(unwrap(pid.debugger).sample_interval) THEN {One} ELSE Dts

\* the same compute(error, dt) on both controllers
ComputeDebugged(error, dt) ==
    /\ pid.error_count < DebuggedCalls
    /\ LET r == compute(pid, error, dt, now, now)
           t == compute(twin, error, dt, now, now)
           data == unwrap(r.debug_data)
           message == [error |-> data.error, output |-> data.output,
                       p_term |-> data.p_term,
                       i_term |-> FMul(r.self.config.ki, r.self.integral),
                       d_term |-> data.d_term]
           s == send_debug_data(unwrap(pid.debugger), scenario, message, now)
       IN  /\ pid' = [r.self EXCEPT !.debugger = Some(s.debugger)]
           /\ twin' = t.self
           /\ scenario' = s.channel
           /\ last' = [op |-> "compute", error |-> error, dt |-> dt,
                       output |-> r.output, twin_output |-> t.output,
                       outcome |-> s.outcome,
                       full |-> Len(scenario.queue) = ChannelCapacity,
                       queued |-> s.channel.queue
                                      = Append(scenario.queue, message),
                       receiver |-> scenario.receiver]
    /\ UNCHANGED << now, controller_windup, controller_anti_windup, builder,
                    facade_vars >>

\* client.connect succeeds
Connect ==
    /\ scenario.receiver = "connecting"
    /\ scenario' = [scenario EXCEPT !.receiver = "connected"]
    /\ UNCHANGED << single_vars, controller_windup, controller_anti_windup,
                    twin, builder, facade_vars >>

\* client.connect fails: the thread returns and the receiver is dropped
\* with what was queued
ConnectFails ==
    /\ scenario.receiver = "connecting"
    /\ scenario' = [queue |-> << >>, receiver |-> "gone"]
    /\ UNCHANGED << single_vars, controller_windup, controller_anti_windup,
                    twin, builder, facade_vars >>

\* rx.recv() hands the oldest message to the broker client
Receive ==
    /\ scenario.receiver = "connected"
    /\ scenario.queue # << >>
    /\ scenario' = [scenario EXCEPT !.queue = Tail(@)]
    /\ UNCHANGED << single_vars, controller_windup, controller_anti_windup,
                    twin, builder, facade_vars >>

\* time passes between calls; it stands still in the long runs, where no
\* call reads the clock for sampling
TickDebugged ==
    /\ ~is_none(unwrap(pid.debugger).sample_interval)
    /\ Tick

NextDebugged ==
    \/ TickDebugged
    \/ \E error \in DebuggedErrors, dt \in DebuggedDts :
         ComputeDebugged(error, dt)
    \/ Connect
    \/ ConnectFails
    \/ Receive

SpecDebugged == InitDebugged /\ [][NextDebugged]_vars

\* C39: for the same compute calls the controller with a debugger returns
\* the outputs of the one without and is in the same state, the debugger
\* aside; the channel never holds more than its capacity, and a compute
\* that finds it full, or the receiver gone, ends like any other, the
\* sample dropped.
C39_DebuggerIsInert ==
    /\ [pid EXCEPT !.debugger = None] = twin
    /\ get_statistics(pid, now) = get_statistics(twin, now)
    /\ Len(scenario.queue) <= ChannelCapacity
    /\ scenario.receiver = "gone" => scenario.queue = << >>
    /\ last.op = "compute"
           => /\ last.output = last.twin_output
              /\ last.outcome = "skipped"
                     => ~is_none(unwrap(pid.debugger).sample_interval)
              /\ last.outcome # "skipped"
                     => (last.outcome = "dropped"
                            <=> last.receiver = "gone" \/ last.full)
              /\ last.queued <=> last.outcome = "sent"

\* the 101st compute, the channel full with the receiver still there: the
\* sample is dropped, the call counted and the output that of the twin
C39_Witness ==
    /\ last.op = "compute"
    /\ last.outcome = "dropped"
    /\ last.full
    /\ ~last.queued
    /\ last.receiver # "gone"
    /\ pid.error_count = ChannelCapacity + 1
    /\ twin.error_count = ChannelCapacity + 1
    /\ last.output = last.twin_output

(* ------------------------------ reset --------------------------------- *)
Zeroed(self) ==
    /\ self.integral = 0
    /\ self.prev_error = 0
    /\ self.first_run
    /\ self.error_sum = 0
    /\ self.error_count = 0
    /\ self.max_error = 0
    /\ ~self.reached_setpoint
    /\ is_none(self.rise_time)
    /\ is_none(self.settle_time)

\* C7: whatever was called before, reset() leaves integral = 0,
\* prev_error = 0, first_run, error_sum = 0, error_count = 0, max_error = 0,
\* reached_setpoint false, rise_time and settle_time unset and start_time
\* the instant of the reset; get_statistics called next, any time later,
\* reports average_error = 0, max_overshoot = 0, rise_time NaN and
\* settling_time the time passed since the reset.
C7_ResetRestores ==
    [][/\ last'.op = "reset" => Zeroed(pid') /\ pid'.start_time = last'.at
       /\ (last.op = "reset" /\ last'.op = "get_statistics")
          => last'.statistics =
                [average_error |-> 0,
                 max_overshoot |-> 0,
                 settling_time |-> as_secs_f64(last'.at - last.at),
                 rise_time |-> NAN]]_vars

\* get_statistics one tick after a reset made later than the construction
\* (start_time changes only in reset)
C7_Witness ==
    /\ last.op = "get_statistics"
    /\ Zeroed(pid)
    /\ pid.start_time > 0
    /\ last.at = pid.start_time + 1
    /\ last.statistics.settling_time = One
    /\ IsNaN(last.statistics.rise_time)

====
